---- MODULE Spec2Model ----
(***************************************************************************)
(* A model of opmsg's filesystem-backed persona keystore (keystore.cc).    *)
(*                                                                         *)
(* Strings are sequences of tokens.  A PEM blob is a sequence over the     *)
(* tokens "-" (a run of dashes), "B" ("BEGIN PUBLIC KEY"), "E" ("END       *)
(* PUBLIC KEY"), "n" (newline) and body tokens; the two frame markers are  *)
(* the token sequences -B- and -E-, so that, as with the real markers,     *)
(* two markers can overlap in their dashes and in nothing else.            *)
(*                                                                         *)
(* The base directory is a function from directory names to directories,   *)
(* a directory a function from file names to contents.                     *)
(***************************************************************************)
EXTENDS Integers, Sequences, FiniteSets, TLC

VARIABLES
    fsys,       \* the base directory: [directory name -> [file name -> content]]
    personas,   \* per process, keystore::personas: [hex -> persona]
    call,       \* per process, the call in progress or last completed
    seen,       \* what the observer process last saw of a persona directory
    clock,      \* gettimeofday() as read by mkdir_helper
    added,      \* history: the ids for which add_persona returned a persona
    norm        \* the state of the normalisation runs

vars == <<fsys, personas, call, seen, clock, added, norm>>

----------------------------------------------------------------------------
(* Bounds *)

\* number of add_persona calls a run of the keystore makes
MaxCalls == 2

\* number of pieces an enumerated PEM input is concatenated from
MaxPieces == 5

----------------------------------------------------------------------------
(* marker.h, as the spec gives the markers *)

pub_begin == <<"-", "B", "-">>

pub_end == <<"-", "E", "-">>

rsa == "rsa"

ec == "ec"

unknown == "unknown"

npos == -1

\* the two reserved kex ids: hex strings that name no key
rsa_kex_id == <<"0", <<>>>>

ec_kex_id == <<"1", <<>>>>

\* an absent string / a null pointer
Empty == <<>>

----------------------------------------------------------------------------
(* std::string primitives, positions counted from 0 as in the code *)

\* s.substr(pos, Len(pat)) == pat
MatchAt(s, pat, pos) ==
    /\ pos >= 0
    /\ pos + Len(pat) <= Len(s)
    /\ \A k \in 1..Len(pat) : s[pos + k] = pat[k]

\* s.find(pat, from)
Find(s, pat, from) ==
    LET hits == {p \in from..(Len(s) - Len(pat)) : MatchAt(s, pat, p)}
    IN  IF hits = {} THEN npos
        ELSE CHOOSE p \in hits : \A q \in hits : p <= q

\* s.erase(0, n)
EraseFront(s, n) == SubSeq(s, n + 1, Len(s))

\* s.erase(pos)
EraseFrom(s, pos) == SubSeq(s, 1, pos)

----------------------------------------------------------------------------
(* The digest.  The hex id of a blob is its first 16 hex digits followed   *)
(* by the rest; the digest is collision free (the rest determines the      *)
(* blob), but two blobs may agree on the first 16 digits.                  *)

Prefix16(blob) == IF \E k \in 1..Len(blob) : blob[k] = "e" THEN "b" ELSE "a"

HexHash(blob) == <<Prefix16(blob), blob>>

\* length, in 16-digit blocks, of the short form find_persona accepts
ShortLen == 1

\* misc.h is_hex_hash: lowercase hex of an accepted length; the reserved
\* kex ids are such strings
is_hex_hash(h) ==
    /\ Len(h) \in {1, 2}
    /\ h[1] \in {"a", "b", "0", "1"}

\* bn2hexhash(md, bn, result): the digest of the bytes of the integer bn
bn2hexhash(bn) == HexHash(<<bn>>)

----------------------------------------------------------------------------
(* normalize_and_hexhash(md, s, result): rc, the string s as the call      *)
(* leaves it, and result.                                                  *)

\* mutant: the search for a second key starts one marker too late
normalize_late_second(s) ==
    LET start == Find(s, pub_begin, 0)
        s1 == IF start > 0 THEN EraseFront(s, start) ELSE s
        end == Find(s1, pub_end, 0)
        s2 == EraseFrom(s1, end + Len(pub_end)) \o <<"n">>
    IN  IF start = npos THEN [rc |-> -1, s |-> s, result |-> Empty]
        ELSE IF Find(s1, pub_begin, 2 * Len(pub_begin)) # npos
             THEN [rc |-> -1, s |-> s1, result |-> Empty]
        ELSE IF end = npos THEN [rc |-> -1, s |-> s1, result |-> Empty]
        ELSE [rc |-> 0, s |-> s2, result |-> HexHash(s2)]

\* mutant: the bytes after the END marker are kept
normalize_keep_tail(s) ==
    LET start == Find(s, pub_begin, 0)
        s1 == IF start > 0 THEN EraseFront(s, start) ELSE s
        end == Find(s1, pub_end, 0)
        s2 == s1 \o <<"n">>
    IN  IF start = npos THEN [rc |-> -1, s |-> s, result |-> Empty]
        ELSE IF Find(s1, pub_begin, Len(pub_begin)) # npos
             THEN [rc |-> -1, s |-> s1, result |-> Empty]
        ELSE IF end = npos THEN [rc |-> -1, s |-> s1, result |-> Empty]
        ELSE [rc |-> 0, s |-> s2, result |-> HexHash(s2)]

normalize_and_hexhash(s) ==
    LET start == Find(s, pub_begin, 0)
        s1 == IF start > 0 THEN EraseFront(s, start) ELSE s
        end == Find(s1, pub_end, 0)
        s2 == EraseFrom(s1, end + Len(pub_end)) \o <<"n">>
    IN  IF start = npos THEN [rc |-> -1, s |-> s, result |-> Empty]
        ELSE IF Find(s1, pub_begin, Len(pub_begin)) # npos
             THEN [rc |-> -1, s |-> s1, result |-> Empty]
        ELSE IF end = npos THEN [rc |-> -1, s |-> s1, result |-> Empty]
        ELSE [rc |-> 0, s |-> s2, result |-> HexHash(s2)]

----------------------------------------------------------------------------
(* The key provider (OpenSSL), as far as the keystore depends on it: which *)
(* blobs parse, and as what type of key.                                   *)

\* the PEM of the public key with body k, in canonical form
Pem(k) == pub_begin \o <<k>> \o pub_end \o <<"n">>

\* PEM_read_bio_PUBKEY and EVP_PKEY_type: "none" when the blob does not parse
PEM_read_PUBKEY(pem) ==
    IF pem = Pem("r") \/ pem = Pem("s") THEN rsa
    ELSE IF pem = Pem("e") \/ pem = Pem("k") THEN ec
    ELSE IF pem = Pem("d") THEN "dh"
    ELSE "none"

\* the private PEM of the ephemeral key with body k (three bytes for the DH
\* key, two for the EC key)
KexPriv(k) == IF k = "d" THEN <<"P", "d", "n">> ELSE <<"P", k>>

\* PEM_read_bio_PrivateKey and EVP_PKEY_type
PEM_read_PrivateKey(pem) ==
    IF pem = <<"PRIV_r">> \/ pem = <<"PRIV_s">> THEN rsa
    ELSE IF pem = <<"PRIV_e">> \/ pem = KexPriv("k") THEN ec
    ELSE IF pem = <<"PRIV_d">> \/ pem = KexPriv("d") THEN "dh"
    ELSE "none"

\* what the PEM reader parses of a blob: the first frame in it
Frame(pem) ==
    LET b == Find(pem, pub_begin, 0)
        e == IF b = npos THEN npos ELSE Find(pem, pub_end, b)
    IN  IF e = npos THEN Empty
        ELSE SubSeq(pem, b + 1, e + Len(pub_end)) \o <<"n">>

\* PEM_read_bio_PUBKEY on a blob as received: garbage around the frame is skipped
PEM_read_bio_PUBKEY(pem) == PEM_read_PUBKEY(Frame(pem))

\* dh->pub_key of a parsed DH public key: the integer in the frame
DhPubKey(pem) == Frame(pem)[Len(pub_begin) + 1]

\* PEM_read_DHparams
PEM_read_DHparams(pem) == pem \in {<<"DHPARAMS_1">>, <<"DHPARAMS_gen">>}

\* DH_generate_parameters_ex followed by PEM_write_DHparams
PEM_write_DHparams == <<"DHPARAMS_gen">>

PubFile(type) ==
    IF type = rsa THEN "rsa.pub.pem"
    ELSE IF type = ec THEN "ec.pub.pem"
    ELSE "unknown.pub.pem"

PrivFile(type) ==
    IF type = rsa THEN "rsa.priv.pem"
    ELSE IF type = ec THEN "ec.priv.pem"
    ELSE "unknown.priv.pem"

----------------------------------------------------------------------------
(* The filesystem calls the keystore makes *)

EmptyFn == [x \in {} |-> Empty]

EmptyDir == [files |-> EmptyFn, subs |-> EmptyFn]

IsEmptyDir(d) == DOMAIN d.files = {} /\ DOMAIN d.subs = {}

\* stat(dir) == 0
DirExists(f, d) == d \in DOMAIN f

\* stat(dir/name) == 0
FileExists(f, d, name) == d \in DOMAIN f /\ name \in DOMAIN f[d].files

\* mkdir(dir, 0700), once it is known not to exist
FsMkdir(f, d) == [x \in DOMAIN f \cup {d} |-> IF x = d THEN EmptyDir ELSE f[x]]

\* the file dir/name gets the content (open with O_CREAT, write)
FsPut(f, d, name, content) ==
    [f EXCEPT ![d].files =
        [n \in DOMAIN @ \cup {name} |-> IF n = name THEN content ELSE @[n]]]

\* unlink(dir/name), ignoring failure
FsUnlink(f, d, name) ==
    IF FileExists(f, d, name)
    THEN [f EXCEPT ![d].files = [n \in DOMAIN @ \ {name} |-> @[n]]]
    ELSE f

\* rmdir(dir), ignoring failure: only an empty directory goes
FsRmdir(f, d) ==
    IF DirExists(f, d) /\ IsEmptyDir(f[d])
    THEN [x \in DOMAIN f \ {d} |-> f[x]]
    ELSE f

\* rename(from, to) of directories succeeds unless `to' is a non-empty directory
RenameOk(f, from, to) ==
    /\ DirExists(f, from)
    /\ DirExists(f, to) => IsEmptyDir(f[to])

FsRename(f, from, to) ==
    [x \in (DOMAIN f \ {from}) \cup {to} |-> IF x = to THEN f[from] ELSE f[x]]

\* mkdir_helper: the name "/<sec>.<usec>.<pid>" under base
TmpName(t, pid) == <<"tmp", <<ToString(t), ToString(pid)>>>>

----------------------------------------------------------------------------
(* keystore::add_persona, one filesystem call at a time.  A run state st   *)
(* is the base directory f, the call's locals c and the caller's persona   *)
(* map m.  c.fault names the system call that the environment fails for    *)
(* this call ("none": no call fails).                                      *)

Faults == {"none", "mkdir", "open_name", "write_name", "open_pub", "open_priv",
           "rename", "dh_gen", "dh_open"}

NewAddPersona(name, c_pub_pem, priv_pem, dhparams_pem, fault) ==
    [op |-> "add_persona", pc |-> "mkdir",
     name |-> name, c_pub_pem |-> c_pub_pem, priv_pem |-> priv_pem,
     dhparams_pem |-> dhparams_pem, fault |-> fault,
     pub_pem |-> Empty, hex |-> Empty, tmpdir |-> Empty,
     type1 |-> unknown, type2 |-> unknown, dh_params |-> Empty,
     renamed |-> FALSE, err |-> "none", ret |-> Empty]

\* return build_error(..., nullptr)
Fail(st, kind) == [st EXCEPT !.c.pc = "done", !.c.err = kind]

\* the persona add_persona constructs (lines 460-467) with its DH parameters:
\* dh_params is the DHbox's parameters (Empty: no DHbox), dh_pem its pub_pem,
\* keys the map of ephemeral keys
NewPersona(c) ==
    [id |-> c.hex, name |-> c.name, ptype |-> c.type1,
     pub_pem |-> c.pub_pem, priv_pem |-> c.priv_pem,
     dh_params |-> c.dh_params, dh_pem |-> c.dh_params, keys |-> EmptyFn]

\* personas[hex] = p
MapPut(m, hex, p) == [i \in DOMAIN m \cup {hex} |-> IF i = hex THEN p ELSE m[i]]

\* lines 377-385: normalize, then mkdir_helper
StepMkdir(pid, t, st) ==
    LET c == st.c
        n == normalize_and_hexhash(c.c_pub_pem)
        tmp == TmpName(t, pid)
    IN  IF n.rc < 0 THEN Fail(st, "Malformed")
        ELSE IF c.fault = "mkdir" \/ DirExists(st.f, tmp)
             THEN Fail([st EXCEPT !.c.pub_pem = n.s, !.c.hex = n.result], "IoError")
        ELSE [st EXCEPT !.f = FsMkdir(st.f, tmp),
                        !.c.pub_pem = n.s, !.c.hex = n.result, !.c.tmpdir = tmp,
                        !.c.pc = IF Len(c.name) > 0 THEN "open_name" ELSE "open_pub"]

\* lines 387-396: the name file
StepName(st) ==
    LET c == st.c
    IN  CASE c.pc = "open_name" ->
                IF c.fault = "open_name" \/ FileExists(st.f, c.tmpdir, "name")
                THEN Fail(st, "IoError")
                ELSE [st EXCEPT !.f = FsPut(st.f, c.tmpdir, "name", Empty),
                                !.c.pc = "write_name"]
          [] c.pc = "write_name" ->
                IF c.fault = "write_name" THEN Fail(st, "IoError")
                ELSE [st EXCEPT !.f = FsPut(st.f, c.tmpdir, "name", c.name),
                                !.c.pc = "write_nl"]
          [] c.pc = "write_nl" ->
                [st EXCEPT !.f = FsPut(st.f, c.tmpdir, "name", c.name \o <<"n">>),
                           !.c.pc = "open_pub"]

\* lines 398-420: the public key
StepPub(st) ==
    LET c == st.c
        t1 == PEM_read_PUBKEY(c.pub_pem)
    IN  CASE c.pc = "open_pub" ->
                IF Len(c.pub_pem) = 0
                THEN [st EXCEPT !.c.pc = IF Len(c.priv_pem) > 0 THEN "open_priv"
                                         ELSE "rename"]
                ELSE IF t1 = "none" THEN Fail(st, "Malformed")
                ELSE IF t1 \notin {ec, rsa} THEN Fail(st, "UnsupportedKeyType")
                ELSE IF c.fault = "open_pub" \/ FileExists(st.f, c.tmpdir, PubFile(t1))
                     THEN Fail([st EXCEPT !.c.type1 = t1], "IoError")
                ELSE [st EXCEPT !.f = FsPut(st.f, c.tmpdir, PubFile(t1), Empty),
                                !.c.type1 = t1, !.c.pc = "write_pub"]
          [] c.pc = "write_pub" ->
                [st EXCEPT !.f = FsPut(st.f, c.tmpdir, PubFile(c.type1), c.pub_pem),
                           !.c.pc = IF Len(c.priv_pem) > 0 THEN "open_priv"
                                    ELSE "rename"]

\* lines 422-447: the private key
StepPriv(st) ==
    LET c == st.c
        t2 == PEM_read_PrivateKey(c.priv_pem)
    IN  CASE c.pc = "open_priv" ->
                IF t2 = "none" THEN Fail(st, "Malformed")
                ELSE IF t2 \notin {ec, rsa} THEN Fail(st, "UnsupportedKeyType")
                ELSE IF c.type1 # unknown /\ c.type1 # t2
                     THEN Fail([st EXCEPT !.c.type2 = t2], "KeyTypeMismatch")
                ELSE IF c.fault = "open_priv" \/ FileExists(st.f, c.tmpdir, PrivFile(t2))
                     THEN Fail([st EXCEPT !.c.type2 = t2], "IoError")
                ELSE [st EXCEPT !.f = FsPut(st.f, c.tmpdir, PrivFile(t2), Empty),
                                !.c.type2 = t2, !.c.pc = "write_priv"]
          [] c.pc = "write_priv" ->
                [st EXCEPT !.f = FsPut(st.f, c.tmpdir, PrivFile(c.type2), c.priv_pem),
                           !.c.pc = "rename"]

\* mutant: the DH parameters asked for with "new" are never generated
AfterRename_skip_new(c) ==
    IF Len(c.dhparams_pem) > 0 /\ c.type1 = rsa /\ c.dhparams_pem # <<"new">>
    THEN "dhp_open"
    ELSE "insert"

\* where add_persona goes after the rename (lines 460-475)
AfterRename(c) ==
    IF Len(c.dhparams_pem) > 0 /\ c.type1 = rsa
    THEN IF c.dhparams_pem = <<"new">> THEN "gen_dh" ELSE "dhp_open"
    ELSE "insert"

\* mutant: the staging directory is renamed onto whatever is there
StepRename_overwrite(st) ==
    LET c == st.c
    IN  [st EXCEPT !.f = FsRename(st.f, c.tmpdir, c.hex),
                   !.c.renamed = TRUE, !.c.pc = AfterRename(c)]

\* lines 449-450: rename(tmpdir, hexdir)
StepRename(st) ==
    LET c == st.c
    IN  IF c.fault = "rename" \/ ~RenameOk(st.f, c.tmpdir, c.hex)
        THEN [st EXCEPT !.c.pc = "unlink_priv"]
        ELSE [st EXCEPT !.f = FsRename(st.f, c.tmpdir, c.hex),
                        !.c.renamed = TRUE, !.c.pc = AfterRename(c)]

\* lines 451-457: the clean-up after a failed rename
StepCleanup(st) ==
    LET c == st.c
    IN  CASE c.pc = "unlink_priv" ->
                [st EXCEPT !.f = FsUnlink(st.f, c.tmpdir, PrivFile(c.type1)),
                           !.c.pc = "unlink_pub"]
          [] c.pc = "unlink_pub" ->
                [st EXCEPT !.f = FsUnlink(st.f, c.tmpdir, PubFile(c.type1)),
                           !.c.pc = "unlink_name"]
          [] c.pc = "unlink_name" ->
                [st EXCEPT !.f = FsUnlink(st.f, c.tmpdir, "name"),
                           !.c.pc = "rmdir"]
          [] c.pc = "rmdir" ->
                Fail([st EXCEPT !.f = FsRmdir(st.f, c.tmpdir)], "Conflict")

\* persona::new_dh_params() as add_persona calls it (lines 817-872)
StepGenDh(st) ==
    LET c == st.c
    IN  CASE c.pc = "gen_dh" ->
                IF c.fault = "dh_gen" THEN Fail(st, "CryptoError")
                ELSE IF c.fault = "dh_open" \/ ~DirExists(st.f, c.hex)
                     THEN Fail(st, "IoError")
                ELSE [st EXCEPT !.f = FsPut(st.f, c.hex, "dhparams.pem", Empty),
                                !.c.pc = "gen_dh_write"]
          [] c.pc = "gen_dh_write" ->
                [st EXCEPT !.f = FsPut(st.f, c.hex, "dhparams.pem", PEM_write_DHparams),
                           !.c.dh_params = PEM_write_DHparams,
                           !.c.pc = "insert"]

\* persona::new_dh_params(pem) as add_persona calls it (lines 784-814)
StepDhPem(st) ==
    LET c == st.c
    IN  CASE c.pc = "dhp_open" ->
                IF c.fault = "dh_open" \/ ~DirExists(st.f, c.hex)
                THEN Fail(st, "IoError")
                ELSE [st EXCEPT !.f = FsPut(st.f, c.hex, "dhparams.pem", Empty),
                                !.c.pc = "dhp_write"]
          [] c.pc = "dhp_write" ->
                LET g == FsPut(st.f, c.hex, "dhparams.pem", c.dhparams_pem)
                IN  IF ~PEM_read_DHparams(c.dhparams_pem)
                    THEN Fail([st EXCEPT !.f = g], "Malformed")
                    ELSE [st EXCEPT !.f = g, !.c.dh_params = c.dhparams_pem,
                                    !.c.pc = "insert"]

\* lines 477-479: personas[hex] = p; return p
StepInsert(st) ==
    [st EXCEPT !.m = MapPut(st.m, st.c.hex, NewPersona(st.c)),
               !.c.ret = st.c.hex, !.c.pc = "done"]

\* one step of process pid's add_persona, staging under the time t
AddPersonaStep(pid, t, st) ==
    LET pc == st.c.pc
    IN  CASE pc = "mkdir" -> StepMkdir(pid, t, st)
          [] pc \in {"open_name", "write_name", "write_nl"} -> StepName(st)
          [] pc \in {"open_pub", "write_pub"} -> StepPub(st)
          [] pc \in {"open_priv", "write_priv"} -> StepPriv(st)
          [] pc = "rename" -> StepRename(st)
          [] pc \in {"unlink_priv", "unlink_pub", "unlink_name", "rmdir"} ->
                StepCleanup(st)
          [] pc \in {"gen_dh", "gen_dh_write"} -> StepGenDh(st)
          [] pc \in {"dhp_open", "dhp_write"} -> StepDhPem(st)
          [] pc = "insert" -> StepInsert(st)

RECURSIVE add_persona(_, _, _)
\* keystore::add_persona, run to its return
add_persona(pid, t, st) ==
    IF st.c.pc = "done" THEN st
    ELSE add_persona(pid, t, AddPersonaStep(pid, t, st))

----------------------------------------------------------------------------
(* keystore::find_persona *)

\* the order of std::map<string, persona *>: hex strings, byte by byte
TokRank(tok) ==
    CASE tok = "-" -> 1 [] tok = "B" -> 2 [] tok = "E" -> 3
      [] tok = "a" -> 4 [] tok = "b" -> 5 [] tok = "d" -> 6
      [] tok = "e" -> 7 [] tok = "n" -> 8 [] tok = "r" -> 9
      [] tok = "s" -> 10 [] OTHER -> 11

Flat(id) == IF Len(id) = 2 THEN <<id[1]>> \o id[2] ELSE id

SeqLess(s, t) ==
    \E k \in 1..(Len(s) + 1) :
        /\ \A j \in 1..(k - 1) : j <= Len(t) /\ s[j] = t[j]
        /\ k <= Len(t)
        /\ k <= Len(s) => TokRank(s[k]) < TokRank(t[k])

IdLess(a, b) == SeqLess(Flat(a), Flat(b))

\* i.first.find(hex) == 0
StartsWith(id, hex) ==
    /\ Len(hex) <= Len(id)
    /\ SubSeq(id, 1, Len(hex)) = hex

\* mutant: the scan keeps the last match
find_persona_last(m, hex) ==
    LET hits == {i \in DOMAIN m : StartsWith(i, hex)}
    IN  IF ~is_hex_hash(hex) THEN [ret |-> Empty, err |-> "InvalidId"]
        ELSE IF Len(hex) = ShortLen /\ hits # {}
             THEN [ret |-> CHOOSE i \in hits : \A j \in hits \ {i} : IdLess(j, i),
                   err |-> "none"]
        ELSE IF hex \in DOMAIN m THEN [ret |-> hex, err |-> "none"]
        ELSE [ret |-> Empty, err |-> "NotFound"]

\* lines 349-367; ret is the id of the persona returned
find_persona(m, hex) ==
    LET hits == {i \in DOMAIN m : StartsWith(i, hex)}
    IN  IF ~is_hex_hash(hex) THEN [ret |-> Empty, err |-> "InvalidId"]
        ELSE IF Len(hex) = ShortLen /\ hits # {}
             THEN [ret |-> CHOOSE i \in hits : \A j \in hits \ {i} : IdLess(i, j),
                   err |-> "none"]
        ELSE IF hex \in DOMAIN m THEN [ret |-> hex, err |-> "none"]
        ELSE [ret |-> Empty, err |-> "NotFound"]

----------------------------------------------------------------------------
(* The directories of ephemeral keys, <base>/<id>/<hex>/: the system calls *)
(* of the persona operations.  f is the base directory, id the persona     *)
(* directory, d a directory in it.                                         *)

\* stat(<base>/<id>/<d>) == 0
SubExists(f, id, d) == DirExists(f, id) /\ d \in DOMAIN f[id].subs

\* stat(<base>/<id>/<d>/<name>) == 0
SubFileExists(f, id, d, name) == SubExists(f, id, d) /\ name \in DOMAIN f[id].subs[d]

\* the content of <base>/<id>/<d>/<name>
SubFile(f, id, d, name) == f[id].subs[d][name]

\* mkdir(<base>/<id>/<d>) succeeds
SubMkdirOk(f, id, d) == DirExists(f, id) /\ ~SubExists(f, id, d)

SubMkdir(f, id, d) ==
    [f EXCEPT ![id].subs =
        [x \in DOMAIN @ \cup {d} |-> IF x = d THEN EmptyFn ELSE @[x]]]

\* open(O_CREAT) of <base>/<id>/<d>/<name> and the write of content
SubPut(f, id, d, name, content) ==
    IF SubExists(f, id, d)
    THEN [f EXCEPT ![id].subs[d] =
            [n \in DOMAIN @ \cup {name} |-> IF n = name THEN content ELSE @[n]]]
    ELSE f

\* unlink(<base>/<id>/<d>/<name>), ignoring failure
SubUnlink(f, id, d, name) ==
    IF SubFileExists(f, id, d, name)
    THEN [f EXCEPT ![id].subs[d] = [n \in DOMAIN @ \ {name} |-> @[n]]]
    ELSE f

\* rmdir(<base>/<id>/<d>) returns 0
SubRmdirOk(f, id, d) == SubExists(f, id, d) /\ DOMAIN f[id].subs[d] = {}

SubRmdir(f, id, d) ==
    IF SubRmdirOk(f, id, d)
    THEN [f EXCEPT ![id].subs = [x \in DOMAIN @ \ {d} |-> @[x]]]
    ELSE f

\* rename(<base>/<id>/<from>, <base>/<id>/<to>), `to' absent
SubRename(f, id, from, to) ==
    [f EXCEPT ![id].subs =
        [x \in (DOMAIN @ \ {from}) \cup {to} |-> IF x = to THEN @[from] ELSE @[x]]]

\* fgets of the first line of a file and the removal of its newline
FirstLine(content) ==
    LET nl == Find(content, <<"n">>, 0)
    IN  IF nl = npos THEN content ELSE SubSeq(content, 1, nl)

----------------------------------------------------------------------------
(* PKEYbox, and the persona operations on ephemeral keys.  Each operation  *)
(* takes the base directory f and the persona p and returns both as it     *)
(* leaves them, with its return value.                                     *)

\* a PKEYbox: an empty pub_pem / priv_pem stands for a null key handle
PKEYbox(hex, pub_pem, priv_pem, peer_id) ==
    [hex |-> hex, pub_pem |-> pub_pem, priv_pem |-> priv_pem, peer_id |-> peer_id]

\* the result of an operation: ret is the hex of the box returned (Empty:
\* nullptr), rc the integer returned
Result(f, p, ret, rc, err) == [f |-> f, p |-> p, ret |-> ret, rc |-> rc, err |-> err]

\* keys[hex] = box
KeysPut(p, hex, box) == [p EXCEPT !.keys = MapPut(@, hex, box)]

\* keys.erase(hex)
KeysErase(p, hex) == [p EXCEPT !.keys = [h \in DOMAIN @ \ {hex} |-> @[h]]]

\* mutant: a DH key is generated without DH parameters
NewKexKey_any(p, k) ==
    IF p.ptype = ec
    THEN LET n == normalize_and_hexhash(Pem(k))
         IN  [rc |-> n.rc, pub_pem |-> n.s, priv_pem |-> KexPriv(k), hex |-> n.result]
    ELSE [rc |-> 0, pub_pem |-> Pem(k), priv_pem |-> KexPriv(k), hex |-> bn2hexhash(k)]

\* persona::gen_dh_key (lines 981-1028) and opmsg::gen_ec (lines 212-277)
\* with the lines 889-899 of gen_kex_key: the fresh key has the body k
NewKexKey(p, k) ==
    IF p.ptype = ec
    THEN LET n == normalize_and_hexhash(Pem(k))
         IN  [rc |-> n.rc, pub_pem |-> n.s, priv_pem |-> KexPriv(k), hex |-> n.result]
    ELSE IF p.dh_params = Empty
         THEN [rc |-> -1, pub_pem |-> Empty, priv_pem |-> Empty, hex |-> Empty]
         ELSE [rc |-> 0, pub_pem |-> Pem(k), priv_pem |-> KexPriv(k),
               hex |-> bn2hexhash(k)]


\* persona::gen_kex_key (lines 882-977), called by process pid at time t
gen_kex_key(pid, t, f, p, peer, k) ==
    LET key == NewKexKey(p, k)
        tmp == TmpName(t, pid)
        f1 == SubPut(SubPut(SubMkdir(f, p.id, tmp), p.id, tmp, "dh.pub.pem", key.pub_pem),
                     p.id, tmp, "dh.priv.pem", key.priv_pem)
        f2 == IF peer # Empty /\ is_hex_hash(peer)
              THEN SubPut(f1, p.id, tmp, "peer", peer \o <<"n">>)
              ELSE f1
        undone == SubRmdir(SubUnlink(SubUnlink(SubUnlink(f2,
                        p.id, tmp, "dh.pub.pem"), p.id, tmp, "dh.priv.pem"),
                        p.id, tmp, "peer"), p.id, tmp)
    IN  IF key.rc < 0
        THEN Result(f, p, Empty, -1,
                    IF p.ptype = ec THEN "CryptoError" ELSE "PreconditionFailed")
        ELSE IF key.hex \in DOMAIN p.keys THEN Result(f, p, key.hex, 0, "none")
        ELSE IF PEM_read_PUBKEY(key.pub_pem) = "none"
                    \/ PEM_read_PrivateKey(key.priv_pem) = "none"
             THEN Result(f, p, Empty, -1, "Malformed")
        ELSE IF ~SubMkdirOk(f, p.id, tmp) THEN Result(f, p, Empty, -1, "IoError")
        ELSE IF SubExists(f2, p.id, key.hex) THEN Result(undone, p, Empty, -1, "Conflict")
        ELSE Result(SubRename(f2, p.id, tmp, key.hex),
                    KeysPut(p, key.hex,
                            PKEYbox(key.hex, key.pub_pem, key.priv_pem, peer)),
                    key.hex, 0, "none")

\* mutant: every imported key is hashed as a normalized PEM, DH keys too
KexId_pem_only(pub_pem) ==
    LET type == PEM_read_bio_PUBKEY(pub_pem)
        n == normalize_and_hexhash(pub_pem)
    IN  IF type = "none" THEN [rc |-> -1, hex |-> Empty, pub_pem |-> pub_pem, err |-> "Malformed"]
        ELSE IF type \in {ec, "dh"}
             THEN [rc |-> n.rc, hex |-> n.result, pub_pem |-> n.s, err |-> "Malformed"]
        ELSE [rc |-> -1, hex |-> Empty, pub_pem |-> pub_pem, err |-> "UnsupportedKeyType"]

\* add_dh_pubkey, lines 1059-1077: the parse of the blob and the kex id;
\* pub_pem is the caller's string as the call leaves it
KexId(pub_pem) ==
    LET type == PEM_read_bio_PUBKEY(pub_pem)
        n == normalize_and_hexhash(pub_pem)
    IN  IF type = "none" THEN [rc |-> -1, hex |-> Empty, pub_pem |-> pub_pem, err |-> "Malformed"]
        ELSE IF type = "dh"
             THEN [rc |-> 0, hex |-> bn2hexhash(DhPubKey(pub_pem)), pub_pem |-> pub_pem,
                   err |-> "none"]
        ELSE IF type = ec
             THEN [rc |-> n.rc, hex |-> n.result, pub_pem |-> n.s, err |-> "Malformed"]
        ELSE [rc |-> -1, hex |-> Empty, pub_pem |-> pub_pem, err |-> "UnsupportedKeyType"]

\* add_dh_pubkey, lines 1083-1112: stage, publish, insert
StoreDhPubkey(pid, t, f, p, hex, pub_pem) ==
    LET tmp == TmpName(t, pid)
        f1 == SubPut(SubMkdir(f, p.id, tmp), p.id, tmp, "dh.pub.pem", pub_pem)
        undone == SubRmdir(SubUnlink(f1, p.id, tmp, "dh.pub.pem"), p.id, tmp)
    IN  IF ~SubMkdirOk(f, p.id, tmp) THEN Result(f, p, Empty, -1, "IoError")
        ELSE IF SubExists(f1, p.id, hex) THEN Result(undone, p, Empty, -1, "Conflict")
        ELSE Result(SubRename(f1, p.id, tmp, hex),
                    KeysPut(p, hex, PKEYbox(hex, pub_pem, Empty, Empty)),
                    hex, 0, "none")

\* mutant: a key already in the map is imported again
add_dh_pubkey_again(pid, t, f, p, pub_pem) ==
    LET id == KexId(pub_pem)
    IN  IF id.rc < 0 THEN Result(f, p, Empty, -1, id.err)
        ELSE StoreDhPubkey(pid, t, f, p, id.hex, id.pub_pem)

\* persona::add_dh_pubkey (lines 1054-1113)
add_dh_pubkey(pid, t, f, p, pub_pem) ==
    LET id == KexId(pub_pem)
    IN  IF id.rc < 0 THEN Result(f, p, Empty, -1, id.err)
        ELSE IF id.hex \in DOMAIN p.keys THEN Result(f, p, id.hex, 0, "none")
        ELSE StoreDhPubkey(pid, t, f, p, id.hex, id.pub_pem)

\* mutant: the long-term key is returned whatever the type of the persona
find_dh_key_any(p, hex) ==
    IF hex = ec_kex_id THEN [ret |-> <<"pkey">>, err |-> "none"]
    ELSE IF hex \in DOMAIN p.keys THEN [ret |-> hex, err |-> "none"]
    ELSE [ret |-> Empty, err |-> "NotFound"]

\* persona::find_dh_key (lines 502-512); ret "pkey" is the long-term box
find_dh_key(p, hex) ==
    IF hex = ec_kex_id /\ p.ptype = ec THEN [ret |-> <<"pkey">>, err |-> "none"]
    ELSE IF hex \in DOMAIN p.keys THEN [ret |-> hex, err |-> "none"]
    ELSE [ret |-> Empty, err |-> "NotFound"]

\* persona::used_key (lines 1031-1043)
used_key(f, p, hexid, u) ==
    IF ~is_hex_hash(hexid) THEN f
    ELSE IF hexid = rsa_kex_id \/ hexid = ec_kex_id THEN f
    ELSE IF ~u THEN SubUnlink(f, p.id, hexid, "used")
    ELSE IF SubFileExists(f, p.id, hexid, "used") THEN f
    ELSE SubPut(f, p.id, hexid, "used", Empty)

\* mutant: the reserved ids are treated like any other hex
del_dh_id_any(f, p, hex) ==
    IF ~is_hex_hash(hex) THEN Result(f, p, Empty, -1, "InvalidId")
    ELSE LET q == IF hex \in DOMAIN p.keys THEN KeysErase(p, hex) ELSE p
         IN  IF SubRmdirOk(f, p.id, hex)
             THEN Result(SubRmdir(f, p.id, hex), q, Empty, 0, "none")
             ELSE Result(f, q, Empty, -1, "IoError")

\* persona::del_dh_id (lines 1117-1130)
del_dh_id(f, p, hex) ==
    IF ~is_hex_hash(hex) THEN Result(f, p, Empty, -1, "InvalidId")
    ELSE IF hex = rsa_kex_id \/ hex = ec_kex_id THEN Result(f, p, Empty, 0, "none")
    ELSE LET q == IF hex \in DOMAIN p.keys THEN KeysErase(p, hex) ELSE p
         IN  IF SubRmdirOk(f, p.id, hex)
             THEN Result(SubRmdir(f, p.id, hex), q, Empty, 0, "none")
             ELSE Result(f, q, Empty, -1, "IoError")

\* persona::del_dh_pub (lines 1177-1192)
del_dh_pub(f, p, hex) ==
    IF ~is_hex_hash(hex) THEN Result(f, p, Empty, -1, "InvalidId")
    ELSE IF hex = rsa_kex_id \/ hex = ec_kex_id THEN Result(f, p, Empty, 0, "none")
    ELSE Result(SubUnlink(f, p.id, hex, "dh.pub.pem"),
                IF hex \in DOMAIN p.keys
                THEN [p EXCEPT !.keys[hex].pub_pem = Empty]
                ELSE p,
                Empty, 0, "none")

----------------------------------------------------------------------------
(* persona::del_dh_priv (lines 1133-1173), one system call at a time.  A   *)
(* run state st is the base directory f, the persona p and the call's      *)
(* locals c.                                                               *)

\* sizeof(buf), the number of bytes one write of the shredding loop covers
BlockSize == 2

\* the byte the buffer is filled with by memset(buf, 0, sizeof(buf))
Nul == "nul"

ZeroBlock == [k \in 1..BlockSize |-> Nul]

\* write(fd, block) at the file offset off: the file grows when the block
\* reaches beyond its end
WriteAt(content, off, block) ==
    LET end == IF off + Len(block) > Len(content) THEN off + Len(block)
               ELSE Len(content)
    IN  [k \in 1..end |-> IF k > off /\ k <= off + Len(block)
                          THEN block[k - off] ELSE content[k]]

NewDelDhPriv(id, hex) ==
    [op |-> "del_dh_priv", pc |-> "stat", id |-> id, hex |-> hex,
     st_size |-> 0, i |-> 0, rc |-> 0, err |-> "none", ret |-> Empty]

\* return build_error(..., rc) / return rc
Return(st, rc, err) == [st EXCEPT !.c.pc = "done", !.c.rc = rc, !.c.err = err]

\* mutant: the loop stops one block before the end of the file
ShredMore_short(c) == c.i + BlockSize < c.st_size

\* the loop condition i < st.st_size (line 1155)
ShredMore(c) == c.i < c.st_size

\* mutant: the box keeps its private half
ForgetPriv_keep(p, hex) == p

\* lines 1165-1169: the box of hex loses its private half
ForgetPriv(p, hex) ==
    IF hex \in DOMAIN p.keys THEN [p EXCEPT !.keys[hex].priv_pem = Empty] ELSE p

DelDhPrivStep(st) ==
    LET c == st.c
        id == st.p.id
    IN  CASE c.pc = "stat" ->
                IF ~is_hex_hash(c.hex) THEN Return(st, -1, "InvalidId")
                ELSE IF c.hex = rsa_kex_id \/ c.hex = ec_kex_id THEN Return(st, 0, "none")
                ELSE IF ~SubFileExists(st.f, id, c.hex, "dh.priv.pem")
                     THEN Return(st, -1, "NotFound")
                ELSE [st EXCEPT !.c.st_size = Len(SubFile(st.f, id, c.hex, "dh.priv.pem")),
                                !.c.pc = "open"]
          [] c.pc = "open" ->
                [st EXCEPT !.c.i = 0,
                           !.c.pc = IF ShredMore([c EXCEPT !.i = 0])
                                    THEN "write" ELSE "unlink_priv"]
          [] c.pc = "write" ->
                LET d == [c EXCEPT !.i = c.i + BlockSize]
                IN  [st EXCEPT !.f = SubPut(st.f, id, c.hex, "dh.priv.pem",
                                        WriteAt(SubFile(st.f, id, c.hex, "dh.priv.pem"),
                                                c.i, ZeroBlock)),
                               !.c.i = d.i,
                               !.c.pc = IF ShredMore(d) THEN "write" ELSE "unlink_priv"]
          [] c.pc = "unlink_priv" ->
                [st EXCEPT !.f = SubUnlink(st.f, id, c.hex, "dh.priv.pem"),
                           !.c.pc = "unlink_used"]
          [] c.pc = "unlink_used" ->
                [st EXCEPT !.f = SubUnlink(st.f, id, c.hex, "used"),
                           !.c.pc = "unlink_peer"]
          [] c.pc = "unlink_peer" ->
                Return([st EXCEPT !.f = SubUnlink(st.f, id, c.hex, "peer"),
                                  !.p = ForgetPriv(st.p, c.hex)], 0, "none")

----------------------------------------------------------------------------
(* Loading from disk: persona::load_dh, persona::check_type,               *)
(* persona::load, keystore::load(hex), keystore::load().                   *)

\* persona(cfgbase, hex) as constructed for a load
BlankPersona(hex) ==
    [id |-> hex, name |-> Empty, ptype |-> unknown, pub_pem |-> Empty,
     priv_pem |-> Empty, dh_params |-> Empty, dh_pem |-> Empty, keys |-> EmptyFn]

\* mutant: a box is kept for a directory that holds neither half
load_dh_keep(f, p, hex) ==
    LET has_pubfile == SubFileExists(f, p.id, hex, "dh.pub.pem")
        pubc == IF has_pubfile THEN SubFile(f, p.id, hex, "dh.pub.pem") ELSE Empty
        has_pub == Len(pubc) > 0 /\ PEM_read_bio_PUBKEY(pubc) # "none"
        p1 == KeysPut(p, hex, PKEYbox(hex, IF has_pub THEN pubc ELSE Empty, Empty, Empty))
        has_priv == SubFileExists(f, p.id, hex, "dh.priv.pem")
        privc == IF has_priv THEN SubFile(f, p.id, hex, "dh.priv.pem") ELSE Empty
        p2 == IF has_priv THEN [p1 EXCEPT !.keys[hex].priv_pem = privc] ELSE p1
        peer == IF SubFileExists(f, p.id, hex, "peer")
                THEN FirstLine(SubFile(f, p.id, hex, "peer")) ELSE Empty
    IN  IF ~is_hex_hash(hex) THEN [p |-> p, rc |-> -1]
        ELSE IF has_priv /\ (Len(privc) = 0 \/ PEM_read_PrivateKey(privc) = "none")
             THEN [p |-> p1, rc |-> -1]
        ELSE IF ~has_pub /\ ~has_priv THEN [p |-> p1, rc |-> 0]
        ELSE IF is_hex_hash(peer)
             THEN [p |-> [p2 EXCEPT !.keys[hex].peer_id = peer], rc |-> 0]
        ELSE [p |-> p2, rc |-> 0]

\* persona::load_dh (lines 541-621): the persona as the call leaves it, and rc
load_dh(f, p, hex) ==
    LET has_pubfile == SubFileExists(f, p.id, hex, "dh.pub.pem")
        pubc == IF has_pubfile THEN SubFile(f, p.id, hex, "dh.pub.pem") ELSE Empty
        has_pub == Len(pubc) > 0 /\ PEM_read_bio_PUBKEY(pubc) # "none"
        p1 == KeysPut(p, hex, PKEYbox(hex, IF has_pub THEN pubc ELSE Empty, Empty, Empty))
        has_priv == SubFileExists(f, p.id, hex, "dh.priv.pem")
        privc == IF has_priv THEN SubFile(f, p.id, hex, "dh.priv.pem") ELSE Empty
        p2 == IF has_priv THEN [p1 EXCEPT !.keys[hex].priv_pem = privc] ELSE p1
        peer == IF SubFileExists(f, p.id, hex, "peer")
                THEN FirstLine(SubFile(f, p.id, hex, "peer")) ELSE Empty
    IN  IF ~is_hex_hash(hex) THEN [p |-> p, rc |-> -1]
        ELSE IF has_priv /\ (Len(privc) = 0 \/ PEM_read_PrivateKey(privc) = "none")
             THEN [p |-> p1, rc |-> -1]
        ELSE IF ~has_pub /\ ~has_priv THEN [p |-> KeysErase(p1, hex), rc |-> 0]
        ELSE IF is_hex_hash(peer)
             THEN [p |-> [p2 EXCEPT !.keys[hex].peer_id = peer], rc |-> 0]
        ELSE [p |-> p2, rc |-> 0]

RECURSIVE LoadKeys(_, _, _)
\* the readdir loop of persona::load (lines 751-767) over the entries S
LoadKeys(f, p, S) ==
    IF S = {} THEN p
    ELSE LET hex == CHOOSE h \in S : TRUE
         IN  LoadKeys(f, IF is_hex_hash(hex) THEN load_dh(f, p, hex).p ELSE p, S \ {hex})

\* persona::check_type (lines 625-645): the type found, unknown for failure
check_type(f, id) ==
    IF FileExists(f, id, "rsa.pub.pem") THEN rsa
    ELSE IF FileExists(f, id, "ec.pub.pem") THEN ec
    ELSE unknown

\* persona::load (lines 648-771): the persona as the call leaves it, rc, error
persona_load(f, p, dh_hex) ==
    LET id == p.id
        ptype == IF p.ptype = unknown THEN check_type(f, id) ELSE p.ptype
        p1 == [p EXCEPT !.ptype = ptype,
                        !.name = IF FileExists(f, id, "name")
                                 THEN FirstLine(f[id].files["name"]) ELSE @]
        has_pub == FileExists(f, id, PubFile(ptype))
        pubc == IF has_pub THEN f[id].files[PubFile(ptype)] ELSE Empty
        has_priv == FileExists(f, id, PrivFile(ptype))
        privc == IF has_priv THEN f[id].files[PrivFile(ptype)] ELSE Empty
        p2 == [p1 EXCEPT !.pub_pem = pubc, !.priv_pem = privc]
        has_dh == ptype = rsa /\ FileExists(f, id, "dhparams.pem")
        dhc == IF has_dh THEN f[id].files["dhparams.pem"] ELSE Empty
        p3 == IF has_dh THEN [p2 EXCEPT !.dh_params = dhc, !.dh_pem = Empty] ELSE p2
    IN  IF ~is_hex_hash(id) THEN [p |-> p, rc |-> -1, err |-> "InvalidId"]
        ELSE IF dh_hex # Empty /\ ~is_hex_hash(dh_hex)
             THEN [p |-> p, rc |-> -1, err |-> "InvalidId"]
        ELSE IF ptype = unknown THEN [p |-> p, rc |-> -1, err |-> "NotFound"]
        ELSE IF ~has_pub THEN [p |-> p1, rc |-> -1, err |-> "NotFound"]
        ELSE IF PEM_read_bio_PUBKEY(pubc) = "none"
             THEN [p |-> p1, rc |-> -1, err |-> "Malformed"]
        ELSE IF has_priv /\ PEM_read_PrivateKey(privc) = "none"
             THEN [p |-> p1, rc |-> -1, err |-> "Malformed"]
        ELSE IF has_dh /\ ~PEM_read_DHparams(dhc)
             THEN [p |-> p2, rc |-> -1, err |-> "Malformed"]
        ELSE IF dh_hex = rsa_kex_id \/ dh_hex = ec_kex_id
             THEN [p |-> p3, rc |-> 0, err |-> "none"]
        ELSE IF dh_hex # Empty
             THEN LET r == load_dh(f, p3, dh_hex)
                  IN  [p |-> r.p, rc |-> r.rc,
                       err |-> IF r.rc < 0 THEN "Malformed" ELSE "none"]
        ELSE [p |-> LoadKeys(f, p3, DOMAIN f[id].subs), rc |-> 0, err |-> "none"]

\* keystore::load(hex) (lines 161-171)
keystore_load_hex(f, m, hex) ==
    IF ~is_hex_hash(hex) THEN [m |-> m, rc |-> -1, err |-> "InvalidId"]
    ELSE [m |-> MapPut(m, hex, persona_load(f, BlankPersona(hex), Empty).p),
          rc |-> 0, err |-> "none"]

RECURSIVE LoadPersonas_all(_, _, _)
\* mutant: a persona is inserted whether or not its load succeeded
LoadPersonas_all(f, m, S) ==
    IF S = {} THEN m
    ELSE LET hex == CHOOSE h \in S : TRUE
             r == persona_load(f, BlankPersona(hex), Empty)
         IN  LoadPersonas_all(f,
                              IF is_hex_hash(hex) THEN MapPut(m, hex, r.p) ELSE m,
                              S \ {hex})

RECURSIVE LoadPersonas(_, _, _)
\* the readdir loop of keystore::load() (lines 184-203) over the entries S
LoadPersonas(f, m, S) ==
    IF S = {} THEN m
    ELSE LET hex == CHOOSE h \in S : TRUE
             r == persona_load(f, BlankPersona(hex), Empty)
         IN  LoadPersonas(f,
                          IF is_hex_hash(hex) /\ r.rc = 0 THEN MapPut(m, hex, r.p) ELSE m,
                          S \ {hex})

\* keystore::load() (lines 174-208)
keystore_load(f, m) == LoadPersonas(f, m, DOMAIN f)

----------------------------------------------------------------------------
(* persona::new_dh_params() and persona::new_dh_params(pem), called on a   *)
(* persona of the map.                                                     *)

\* lines 817-872
new_dh_params(f, p) ==
    IF ~DirExists(f, p.id) THEN Result(f, p, Empty, -1, "IoError")
    ELSE Result(FsPut(f, p.id, "dhparams.pem", PEM_write_DHparams),
                [p EXCEPT !.dh_params = PEM_write_DHparams,
                          !.dh_pem = PEM_write_DHparams],
                <<"dh_params">>, 0, "none")

\* lines 784-814: the file is truncated, the blob written, then parsed
new_dh_params_pem(f, p, pem) ==
    LET g == FsPut(f, p.id, "dhparams.pem", pem)
    IN  IF ~DirExists(f, p.id) THEN Result(f, p, Empty, -1, "IoError")
        ELSE IF Len(pem) = 0 THEN Result(g, p, Empty, -1, "IoError")
        ELSE IF ~PEM_read_DHparams(pem) THEN Result(g, p, Empty, -1, "Malformed")
        ELSE Result(g, [p EXCEPT !.dh_params = pem, !.dh_pem = pem],
                    <<"dh_params">>, 0, "none")

----------------------------------------------------------------------------
(* The keystore of one process: every operation runs to its return.        *)

Procs == {1, 2}

Idle == [op |-> "idle", pc |-> "done"]

NoResult == [rc |-> -2, s |-> Empty, result |-> Empty]

NormIdle == [pc |-> "off", in |-> Empty, first |-> NoResult, second |-> NoResult]

Names == {Empty, <<"a", "l">>}

\* the names given to add_persona of one process: also a name of two lines
AddNames == Names \cup {<<"a", "n", "l">>}

\* public key arguments: three keys (two RSA keys whose ids share their
\* first 16 digits, one EC key), a DH key, a key between garbage, a frame
\* around something that is no key, and a blob without markers
PubInputs ==
    {Pem("r"), Pem("s"), Pem("e"), Pem("d"),
     <<"x", "n">> \o Pem("r") \o <<"x">>, Pem("x"), <<"x", "n">>}

PrivInputs ==
    {Empty, <<"PRIV_r">>, <<"PRIV_s">>, <<"PRIV_e">>, <<"PRIV_d">>, <<"x">>}

DhInputs == {Empty, <<"new">>, <<"DHPARAMS_1">>, <<"x">>}

\* the private key of a public key
PrivOf(pub) ==
    IF pub = Pem("r") THEN <<"PRIV_r">>
    ELSE IF pub = Pem("s") THEN <<"PRIV_s">>
    ELSE <<"PRIV_e">>

\* The calls a run makes: every combination of a name, one of the three
\* keys with or without its private key, and each DH argument; each other
\* public or private key argument on its own; and, for each system call, a
\* call with full arguments during which that system call fails; and one
\* call with a name of two lines.
CallArgs(name, pub, priv, dh, fault) ==
    \/ /\ name \in Names
       /\ \/ /\ fault = "none"
             /\ pub \in {Pem("r"), Pem("s"), Pem("e")}
             /\ priv \in {Empty, PrivOf(pub)}
          \/ /\ fault = "none"
             /\ pub \notin {Pem("r"), Pem("s"), Pem("e")}
             /\ name # Empty /\ priv = Empty /\ dh = Empty
          \/ /\ fault = "none"
             /\ pub = Pem("r") /\ priv \in {<<"PRIV_e">>, <<"PRIV_d">>, <<"x">>}
             /\ name # Empty /\ dh = Empty
          \/ /\ fault # "none"
             /\ pub = Pem("r") /\ priv = <<"PRIV_r">> /\ name # Empty
             /\ \/ dh = <<"new">>
                \/ dh = <<"DHPARAMS_1">> /\ fault = "dh_open"
    \/ /\ name = <<"a", "n", "l">>
       /\ fault = "none"
       /\ pub = Pem("r") /\ priv = <<"PRIV_r">> /\ dh = Empty

FindInputs ==
    {<<"a">>, <<"b">>, <<"z">>}
        \cup {HexHash(Pem(k)) : k \in {"r", "s", "e"}}

Init ==
    /\ fsys = EmptyFn
    /\ personas = [p \in Procs |-> EmptyFn]
    /\ call = [p \in Procs |-> Idle]
    /\ seen = Empty
    /\ clock = 0
    /\ added = {}
    /\ norm = NormIdle

AddPersona ==
    \E name \in AddNames, pub \in PubInputs, priv \in PrivInputs,
       dh \in DhInputs, fault \in Faults :
        /\ clock < MaxCalls
        /\ call[1].op # "find_persona"
        /\ CallArgs(name, pub, priv, dh, fault)
        /\ LET st == add_persona(1, clock + 1,
                        [f |-> fsys, m |-> personas[1],
                         c |-> NewAddPersona(name, pub, priv, dh, fault)])
           IN  /\ fsys' = st.f
               /\ personas' = [personas EXCEPT ![1] = st.m]
               /\ call' = [call EXCEPT ![1] = st.c]
               /\ added' = IF st.c.ret # Empty THEN added \cup {st.c.ret} ELSE added
        /\ clock' = clock + 1
        /\ UNCHANGED <<seen, norm>>

FindPersona ==
    \E hex \in FindInputs :
        /\ call[1].op # "find_persona"
        /\ LET r == find_persona(personas[1], hex)
           IN  call' = [call EXCEPT ![1] =
                    [op |-> "find_persona", pc |-> "done", hex |-> hex,
                     ret |-> r.ret, err |-> r.err]]
        /\ UNCHANGED <<fsys, personas, seen, clock, added, norm>>

Next == AddPersona \/ FindPersona

Spec == Init /\ [][Next]_vars

----------------------------------------------------------------------------
(* Normalisation on its own: a blob is normalised, the result normalised   *)
(* again, and the blob is given to add_persona of an empty keystore.       *)

\* what the enumerated blobs are concatenated from
Pieces == {pub_begin, pub_end, <<"-">>, <<"B">>, <<"E">>, <<"r">>, <<"n">>}

RECURSIVE Concat(_)
Concat(q) == IF q = <<>> THEN <<>> ELSE Head(q) \o Concat(Tail(q))

PemStrings == {Concat(q) : q \in UNION {[1..k -> Pieces] : k \in 0..MaxPieces}}

InitNorm ==
    /\ fsys = EmptyFn
    /\ personas = [p \in Procs |-> EmptyFn]
    /\ call = [p \in Procs |-> Idle]
    /\ seen = Empty
    /\ clock = 0
    /\ added = {}
    /\ \E x \in PemStrings :
        norm = [pc |-> "start", in |-> x, first |-> NoResult, second |-> NoResult]

Normalize ==
    /\ norm.pc = "start"
    /\ norm' = [norm EXCEPT !.pc = "once", !.first = normalize_and_hexhash(norm.in)]
    /\ UNCHANGED <<fsys, personas, call, seen, clock, added>>

Renormalize ==
    /\ norm.pc = "once"
    /\ norm.first.rc = 0
    /\ norm' = [norm EXCEPT !.pc = "twice",
                            !.second = normalize_and_hexhash(norm.first.s)]
    /\ UNCHANGED <<fsys, personas, call, seen, clock, added>>

ImportBlob ==
    /\ norm.pc = "once"
    /\ LET st == add_persona(1, clock + 1,
                    [f |-> fsys, m |-> personas[1],
                     c |-> NewAddPersona(<<"a", "l">>, norm.in, Empty, Empty, "none")])
       IN  /\ fsys' = st.f
           /\ personas' = [personas EXCEPT ![1] = st.m]
           /\ call' = [call EXCEPT ![1] = st.c]
           /\ added' = IF st.c.ret # Empty THEN added \cup {st.c.ret} ELSE added
    /\ clock' = clock + 1
    /\ norm' = [norm EXCEPT !.pc = "imported"]
    /\ UNCHANGED seen

NextNorm == Normalize \/ Renormalize \/ ImportBlob

SpecNorm == InitNorm /\ [][NextNorm]_vars

----------------------------------------------------------------------------
(* Claims about normalisation, under SpecNorm *)

\* the positions at which the BEGIN marker occurs in s
BeginAt(s) == {p \in 0..(Len(s) - Len(pub_begin)) : MatchAt(s, pub_begin, p)}

\* the positions at which the END marker occurs in s
EndAt(s) == {p \in 0..(Len(s) - Len(pub_end)) : MatchAt(s, pub_end, p)}

FirstBegin(s) == CHOOSE p \in BeginAt(s) : \A q \in BeginAt(s) : p <= q

\* the blob was given to add_persona, which returned
Imported == norm.pc = "imported" /\ call[1].op = "add_persona"

\* add_persona of the empty keystore made the persona of the key in canon
ImportedAs(canon) ==
    /\ call[1].ret = HexHash(canon)
    /\ call[1].ret \in DOMAIN personas[1]
    /\ personas[1][call[1].ret].pub_pem = canon
    /\ DirExists(fsys, call[1].ret)

\* C7: normalising a normalised blob is accepted and yields the same
\* canonical bytes and the same hex.
C7_NormalizeIdempotent ==
    norm.pc = "twice" =>
        /\ norm.second.rc = 0
        /\ norm.second.s = norm.first.s
        /\ norm.second.result = norm.first.result

\* C7 witness: a blob with garbage around its key was normalised twice
C7_Witness ==
    /\ norm.pc = "twice"
    /\ norm.first.s # norm.in
    /\ norm.in # norm.first.s \o <<"n">>
    /\ Len(norm.in) > Len(norm.first.s)

\* the blob in is g \o P \o t with g its first i tokens and P the next j - i
Middle(in, i, j) == SubSeq(in, i + 1, j)

\* C8 as claimed: whatever surrounds an accepted P, the blob normalises to
\* the canonical bytes and hex of P, and add_persona makes the same persona.
C8_AnyGarbage ==
    \A i \in 0..Len(norm.in), j \in 0..Len(norm.in) :
        LET P == Middle(norm.in, i, j)
            nP == normalize_and_hexhash(P)
        IN  (i <= j /\ norm.pc # "start" /\ nP.rc = 0) =>
                /\ norm.first.rc = 0
                /\ norm.first.s = nP.s
                /\ norm.first.result = nP.result
                /\ (Imported /\ PEM_read_PUBKEY(nP.s) \in {rsa, ec}) => ImportedAs(nP.s)

\* g and t add no occurrence of the BEGIN marker to those of P
NoFurtherBegin(in, i, j) ==
    BeginAt(in) = {i + p : p \in BeginAt(Middle(in, i, j))}

\* C8 amended: surrounding garbage that adds no occurrence of the BEGIN
\* marker (within itself or across a join) leaves the canonical bytes, the
\* hex and the persona add_persona makes unchanged.
C8_GarbageWithoutBegin ==
    \A i \in 0..Len(norm.in), j \in 0..Len(norm.in) :
        LET P == Middle(norm.in, i, j)
            nP == normalize_and_hexhash(P)
        IN  (i <= j /\ norm.pc # "start" /\ nP.rc = 0
                /\ NoFurtherBegin(norm.in, i, j)) =>
                /\ norm.first.rc = 0
                /\ norm.first.s = nP.s
                /\ norm.first.result = nP.result
                /\ (Imported /\ PEM_read_PUBKEY(nP.s) \in {rsa, ec}) => ImportedAs(nP.s)

\* C8 witness: the key r between a garbage prefix and a garbage suffix was
\* given to add_persona, which made the persona of r
C8_Witness ==
    /\ Imported
    /\ \E i \in 1..Len(norm.in), j \in 1..(Len(norm.in) - 1) :
        /\ i <= j
        /\ Middle(norm.in, i, j) \o <<"n">> = Pem("r")
        /\ NoFurtherBegin(norm.in, i, j)
    /\ ImportedAs(Pem("r"))

\* add_persona failed on the blob and left the base directory and the map empty
RejectedCleanly ==
    /\ call[1].ret = Empty
    /\ call[1].err = "Malformed"
    /\ fsys = EmptyFn
    /\ personas[1] = EmptyFn

\* no END marker starts at or after the first BEGIN marker
NoEndAfterBegin(s) == \A q \in EndAt(s) : q < FirstBegin(s)

SecondBeginApart(s) ==
    \E q \in BeginAt(s) : q >= FirstBegin(s) + Len(pub_begin)

----------------------------------------------------------------------------
(* Claims about the keystore of one process, under Spec *)

\* process 1's last call was add_persona
LastAdd == call[1].op = "add_persona" /\ call[1].pc = "done"

\* the step just taken is a whole add_persona call of process 1
AddReturned == clock' = clock + 1 /\ call'[1].op = "add_persona"

\* the canonical form of the last call's public key argument
Canon(c) == normalize_and_hexhash(c.c_pub_pem).s

\* the last call was add_persona(name, P, S, "new") with P and S RSA keys,
\* and it returned a persona
CreatedRsaWithNew ==
    /\ LastAdd
    /\ call[1].ret # Empty
    /\ PEM_read_PUBKEY(Canon(call[1])) = rsa
    /\ PEM_read_PrivateKey(call[1].priv_pem) = rsa
    /\ call[1].dhparams_pem = <<"new">>

\* what the claim says of a created RSA persona apart from its file names
RsaPersonaStored(h, c) ==
    /\ c.ret = h
    /\ DirExists(fsys, h)
    /\ DOMAIN fsys[h].subs = {}
    /\ fsys[h].files["rsa.pub.pem"] = Canon(c)
    /\ fsys[h].files["rsa.priv.pem"] = c.priv_pem
    /\ PEM_read_DHparams(fsys[h].files["dhparams.pem"])
    /\ h \in DOMAIN personas[1]
    /\ personas[1][h].ptype = rsa
    /\ personas[1][h].id = h

\* C3 as claimed: the directory of the created persona holds exactly name,
\* rsa.pub.pem, rsa.priv.pem and dhparams.pem.
C3_CreateRsaAsClaimed ==
    CreatedRsaWithNew =>
        LET h == HexHash(Canon(call[1]))
        IN  /\ DirExists(fsys, h)
            /\ DOMAIN fsys[h].files =
                    {"name", "rsa.pub.pem", "rsa.priv.pem", "dhparams.pem"}
            /\ fsys[h].files["name"] = call[1].name \o <<"n">>
            /\ RsaPersonaStored(h, call[1])

\* C3 amended: the directory holds exactly rsa.pub.pem (the normalised P),
\* rsa.priv.pem and dhparams.pem, and the file name (the name and a newline)
\* exactly when the name is not empty; the persona is in the map under h
\* with type RSA.
C3_CreateRsa ==
    CreatedRsaWithNew =>
        LET h == HexHash(Canon(call[1]))
        IN  /\ DirExists(fsys, h)
            /\ DOMAIN fsys[h].files =
                    {"rsa.pub.pem", "rsa.priv.pem", "dhparams.pem"}
                        \cup (IF call[1].name # Empty THEN {"name"} ELSE {})
            /\ call[1].name # Empty =>
                    fsys[h].files["name"] = call[1].name \o <<"n">>
            /\ RsaPersonaStored(h, call[1])

\* C3 witness: a named RSA persona was created with fresh DH parameters
C3_Witness ==
    /\ CreatedRsaWithNew
    /\ call[1].name = <<"a", "l">>
    /\ "name" \in DOMAIN fsys[call[1].ret].files
    /\ "dhparams.pem" \in DOMAIN fsys[call[1].ret].files

\* the arguments beside the public key would do for a new persona, and no
\* system call fails during the call
OtherwiseValid(c) ==
    /\ c.fault = "none"
    /\ c.priv_pem # Empty =>
            PEM_read_PrivateKey(c.priv_pem) = PEM_read_PUBKEY(Canon(c))

\* C4: once add_persona succeeded for a key, every further add_persona with
\* a public PEM of the same hex fails and leaves the persona directory and
\* the persona map as they were; it fails with Conflict whenever its other
\* arguments are acceptable and no system call fails.
C4_DuplicateRejected ==
    [][(AddReturned /\ call'[1].hex \in added) =>
            /\ call'[1].ret = Empty
            /\ DirExists(fsys', call'[1].hex)
            /\ fsys'[call'[1].hex] = fsys[call'[1].hex]
            /\ personas' = personas
            /\ OtherwiseValid(call'[1]) => call'[1].err = "Conflict"]_vars

\* C4 witness: a second add_persona for a stored key has failed with Conflict
C4_Witness ==
    /\ LastAdd
    /\ call[1].hex \in added
    /\ call[1].err = "Conflict"
    /\ call[1].hex \in DOMAIN personas[1]
    /\ DirExists(fsys, call[1].hex)

\* C5: an add_persona that returns failure has not created a persona
\* directory and has left the persona map unchanged.
C5_FailsAtomically ==
    [][(AddReturned /\ call'[1].ret = Empty) =>
            /\ \A d \in DOMAIN fsys' \ DOMAIN fsys : ~is_hex_hash(d)
            /\ personas' = personas]_vars

\* C6, for add_persona: when the call fails after its staging directory was
\* created, the staging directory is gone when the call returns.
C6_StagingRemoved ==
    (LastAdd /\ call[1].ret = Empty /\ call[1].tmpdir # Empty) =>
        ~DirExists(fsys, call[1].tmpdir)

\* process 1's last call was find_persona with a short id
ShortLookup == call[1].op = "find_persona" /\ Len(call[1].hex) = ShortLen

\* the personas other than h whose id starts with the short id
Sharing(h, short) == {g \in DOMAIN personas[1] \ {h} : StartsWith(g, short)}

\* C10 as claimed: the short form of h finds h iff no other persona's id
\* starts with it.
C10_ShortLookupAsClaimed ==
    ShortLookup =>
        \A h \in DOMAIN personas[1] :
            StartsWith(h, call[1].hex) =>
                (call[1].ret = h <=> Sharing(h, call[1].hex) = {})

\* C10 amended: the short form of h finds h iff no persona whose id comes
\* before h in the map's order starts with it.
C10_ShortLookup ==
    ShortLookup =>
        \A h \in DOMAIN personas[1] :
            StartsWith(h, call[1].hex) =>
                (call[1].ret = h <=>
                    \A g \in Sharing(h, call[1].hex) : IdLess(h, g))

\* C10 witness: two personas share their first 16 digits and the short form
\* found one of them
C10_Witness ==
    /\ ShortLookup
    /\ call[1].ret # Empty
    /\ Sharing(call[1].ret, call[1].hex) # {}

----------------------------------------------------------------------------
(* Two processes on one base directory, each making one add_persona call,  *)
(* interleaved one system call at a time, and an observer process that     *)
(* lists the persona directory.  Both calls stage under the same time.     *)

\* the hex both calls compute
SharedHex == HexHash(Pem("r"))

\* the public key arguments of the two calls: the same key, bare or in garbage
ConcPubInputs == {Pem("r"), <<"x", "n">> \o Pem("r") \o <<"x">>}

Start(p) ==
    \E name \in Names, pub \in ConcPubInputs,
       priv \in {Empty, <<"PRIV_r">>}, dh \in DhInputs :
        /\ call[p].op = "idle"
        /\ call' = [call EXCEPT ![p] = NewAddPersona(name, pub, priv, dh, "none")]
        /\ UNCHANGED <<fsys, personas, seen, clock, added, norm>>

Step(p) ==
    /\ call[p].op = "add_persona"
    /\ call[p].pc # "done"
    /\ LET st == AddPersonaStep(p, clock + 1,
                    [f |-> fsys, m |-> personas[p], c |-> call[p]])
       IN  /\ fsys' = st.f
           /\ personas' = [personas EXCEPT ![p] = st.m]
           /\ call' = [call EXCEPT ![p] = st.c]
           /\ added' = IF st.c.ret # Empty THEN added \cup {st.c.ret} ELSE added
    /\ UNCHANGED <<seen, clock, norm>>

\* the observer's opendir/readdir of <base>/<hex>
Observe ==
    /\ seen' = IF DirExists(fsys, SharedHex)
               THEN [dir |-> SharedHex, files |-> DOMAIN fsys[SharedHex].files]
               ELSE Empty
    /\ seen' # seen
    /\ UNCHANGED <<fsys, personas, call, clock, added, norm>>

NextConc == (\E p \in Procs : Start(p) \/ Step(p)) \/ Observe

SpecConc == Init /\ [][NextConc]_vars

----------------------------------------------------------------------------
(* Claims about concurrent calls, under SpecConc *)

\* the files the call c writes for its persona
Written(c) ==
    (IF c.name # Empty THEN {"name"} ELSE {})
        \cup {PubFile(c.type1)}
        \cup (IF c.priv_pem # Empty THEN {PrivFile(c.type2)} ELSE {})
        \cup (IF c.dhparams_pem # Empty /\ c.type1 = rsa
              THEN {"dhparams.pem"} ELSE {})

\* process p's call renamed its staging directory to <base>/<hex>
Publisher(p, hex) ==
    /\ call[p].op = "add_persona"
    /\ call[p].renamed
    /\ call[p].hex = hex

\* C1: whenever the observer finds <base>/<hex>/, it finds in it every file
\* that the call which created it writes.
C1_AtomicPublish ==
    seen # Empty =>
        \A p \in Procs : Publisher(p, seen.dir) => Written(call[p]) \subseteq seen.files

\* both calls have returned
BothReturned ==
    \A p \in Procs : call[p].op = "add_persona" /\ call[p].pc = "done"

\* the call's arguments would create a persona in an empty base directory
ValidAlone(c) ==
    /\ OtherwiseValid(c)
    /\ (c.dhparams_pem # Empty /\ c.dhparams_pem # <<"new">>) =>
            PEM_read_DHparams(c.dhparams_pem)

\* C2: of two concurrent calls for the same hex, never more than one renames
\* its staging directory into place, and when both have returned (each with
\* arguments that create a persona when the call runs alone) exactly one has
\* published the directory and returned the persona and the other has
\* failed with Conflict.
C2_OnePublisher ==
    /\ Cardinality({p \in Procs : Publisher(p, SharedHex)}) <= 1
    /\ (BothReturned /\ \A p \in Procs : ValidAlone(call[p])) =>
            \E w \in Procs :
                /\ Publisher(w, SharedHex)
                /\ call[w].ret = SharedHex
                /\ SharedHex \in DOMAIN personas[w]
                /\ \A l \in Procs \ {w} :
                    /\ ~call[l].renamed
                    /\ call[l].ret = Empty
                    /\ call[l].err = "Conflict"
                    /\ personas[l] = EmptyFn
                    /\ ~DirExists(fsys, call[l].tmpdir)

\* C2 witness: both calls ran interleaved and returned, one with the
\* persona, the other with Conflict
C2_Witness ==
    /\ BothReturned
    /\ \E w \in Procs, l \in Procs :
        /\ call[w].ret = SharedHex
        /\ call[l].err = "Conflict"
        /\ DirExists(fsys, SharedHex)

----------------------------------------------------------------------------
(* The ephemeral keys of a keystore with two personas, an RSA persona with *)
(* DH parameters and an EC persona, both made by add_persona in an empty   *)
(* base directory.  One process calls the persona and keystore operations  *)
(* one after the other; del_dh_priv runs one system call at a time.        *)

\* number of operations called after the two personas were made
MaxKexCalls == 3

\* the two personas
RsaId == HexHash(Pem("r"))

EcId == HexHash(Pem("e"))

\* the ephemeral keys: the DH key d of the RSA persona, the EC key k of the
\* EC persona
DhKexId == bn2hexhash("d")

EcKexId == HexHash(Pem("k"))

\* the body of the key gen_kex_key generates for a persona
FreshKey(p) == IF p.ptype = ec THEN "k" ELSE "d"

\* designated peers: none, or a hex id
PeerInputs == {Empty, <<"b">>}

\* blobs given to add_dh_pubkey: the two ephemeral public keys, each also
\* between garbage, an RSA key, and a blob that is no key
KexPubInputs ==
    {Pem("d"), Pem("k"), <<"x", "n">> \o Pem("k") \o <<"x">>,
     <<"x", "n">> \o Pem("d"), Pem("r"), <<"x">>}

\* kex ids given to the operations: the two keys, the reserved ids, no hex
KexHexInputs == {DhKexId, EcKexId, rsa_kex_id, ec_kex_id, <<"z">>}

\* ids given to keystore::load(hex): the personas, a hex without directory, no hex
LoadInputs == {RsaId, EcId, <<"b">>, <<"z">>}

\* the state after add_persona("al", r, PRIV_r, "new") and
\* add_persona("", e, PRIV_e, "new") in an empty base directory
TwoPersonas ==
    LET s1 == add_persona(1, 1, [f |-> EmptyFn, m |-> EmptyFn,
                c |-> NewAddPersona(<<"a", "l">>, Pem("r"), <<"PRIV_r">>, <<"new">>, "none")])
    IN  add_persona(1, 2, [f |-> s1.f, m |-> s1.m,
                c |-> NewAddPersona(Empty, Pem("e"), <<"PRIV_e">>, <<"new">>, "none")])

InitKex ==
    /\ fsys = TwoPersonas.f
    /\ personas = [p \in Procs |-> IF p = 1 THEN TwoPersonas.m ELSE EmptyFn]
    /\ call = [p \in Procs |-> Idle]
    /\ seen = Empty
    /\ clock = 2
    /\ added = {RsaId, EcId}
    /\ norm = NormIdle

\* the process may call its next operation
Ready == call[1].pc = "done" /\ clock < 2 + MaxKexCalls

\* the record of a completed call; again: the call before it was the same
\* operation on the same persona with the same argument
Called(op, id, arg, r) ==
    [op |-> op, pc |-> "done", id |-> id, arg |-> arg,
     ret |-> r.ret, rc |-> r.rc, err |-> r.err,
     again |-> call[1].op = op /\ call[1].id = id /\ call[1].arg = arg]

\* the effect of a completed persona operation with result r
Finish(op, id, arg, r) ==
    /\ fsys' = r.f
    /\ personas' = [personas EXCEPT ![1][id] = r.p]
    /\ call' = [call EXCEPT ![1] = Called(op, id, arg, r)]
    /\ clock' = clock + 1
    /\ UNCHANGED <<seen, added, norm>>


\* the personas the operations are called on
PersonaIds == {RsaId, EcId} \cap DOMAIN personas[1]

GenKexKey ==
    \E id \in PersonaIds, peer \in PeerInputs :
        /\ Ready
        /\ Finish("gen_kex_key", id, peer,
                  gen_kex_key(1, clock + 1, fsys, personas[1][id], peer,
                              FreshKey(personas[1][id])))

AddDhPubkey ==
    \E id \in PersonaIds, pem \in KexPubInputs :
        /\ Ready
        /\ Finish("add_dh_pubkey", id, pem,
                  add_dh_pubkey(1, clock + 1, fsys, personas[1][id], pem))

FindDhKey ==
    \E id \in PersonaIds, hex \in KexHexInputs :
        /\ Ready
        /\ LET r == find_dh_key(personas[1][id], hex)
           IN  Finish("find_dh_key", id, hex,
                      Result(fsys, personas[1][id], r.ret, 0, r.err))

UsedKey ==
    \E id \in PersonaIds, hex \in KexHexInputs, u \in BOOLEAN :
        /\ Ready
        /\ Finish("used_key", id, <<hex, u>>,
                  Result(used_key(fsys, personas[1][id], hex, u), personas[1][id],
                         Empty, 0, "none"))

DelDhId ==
    \E id \in PersonaIds, hex \in KexHexInputs :
        /\ Ready
        /\ Finish("del_dh_id", id, hex, del_dh_id(fsys, personas[1][id], hex))

DelDhPub ==
    \E id \in PersonaIds, hex \in KexHexInputs :
        /\ Ready
        /\ Finish("del_dh_pub", id, hex, del_dh_pub(fsys, personas[1][id], hex))

\* del_dh_priv is entered
DelDhPriv ==
    \E id \in PersonaIds, hex \in KexHexInputs :
        /\ Ready
        /\ call' = [call EXCEPT ![1] = NewDelDhPriv(id, hex)]
        /\ clock' = clock + 1
        /\ UNCHANGED <<fsys, personas, seen, added, norm>>

\* del_dh_priv makes its next system call
DelDhPrivNext ==
    /\ call[1].op = "del_dh_priv"
    /\ call[1].pc # "done"
    /\ LET st == DelDhPrivStep([f |-> fsys, p |-> personas[1][call[1].id], c |-> call[1]])
       IN  /\ fsys' = st.f
           /\ personas' = [personas EXCEPT ![1][call[1].id] = st.p]
           /\ call' = [call EXCEPT ![1] = st.c]
    /\ UNCHANGED <<seen, clock, added, norm>>

NewDhParams ==
    \E id \in PersonaIds :
        /\ Ready
        /\ Finish("new_dh_params", id, Empty, new_dh_params(fsys, personas[1][id]))

NewDhParamsPem ==
    \E id \in PersonaIds, pem \in {<<"DHPARAMS_1">>, <<"x">>} :
        /\ Ready
        /\ Finish("new_dh_params_pem", id, pem,
                  new_dh_params_pem(fsys, personas[1][id], pem))

LoadHex ==
    \E hex \in LoadInputs :
        /\ Ready
        /\ LET r == keystore_load_hex(fsys, personas[1], hex)
           IN  /\ personas' = [personas EXCEPT ![1] = r.m]
               /\ call' = [call EXCEPT ![1] =
                        [op |-> "load_hex", pc |-> "done", id |-> hex, arg |-> hex,
                         ret |-> Empty, rc |-> r.rc, err |-> r.err,
                         loaded |-> persona_load(fsys, BlankPersona(hex), Empty).rc]]
        /\ clock' = clock + 1
        /\ UNCHANGED <<fsys, seen, added, norm>>

Load ==
    /\ Ready
    /\ personas' = [personas EXCEPT ![1] = keystore_load(fsys, personas[1])]
    /\ call' = [call EXCEPT ![1] =
            [op |-> "load", pc |-> "done", id |-> Empty, arg |-> Empty,
             ret |-> Empty, rc |-> 0, err |-> "none"]]
    /\ clock' = clock + 1
    /\ UNCHANGED <<fsys, seen, added, norm>>

NextKex ==
    \/ GenKexKey \/ AddDhPubkey \/ FindDhKey \/ UsedKey
    \/ DelDhId \/ DelDhPub \/ DelDhPriv \/ DelDhPrivNext
    \/ NewDhParams \/ NewDhParamsPem \/ LoadHex \/ Load

SpecKex == InitKex /\ [][NextKex]_vars

----------------------------------------------------------------------------
(* Claims about ephemeral keys, under SpecKex *)

\* the staging directories left in the persona directory id
Staging(f, id) == {d \in DOMAIN f[id].subs : d[1] = "tmp"}

\* the last call was op, and it has returned
Returned(op) == call[1].op = op /\ call[1].pc = "done"

\* this step is a call of add_dh_pubkey that repeats the call before it
ImportRepeated ==
    /\ Returned("add_dh_pubkey")
    /\ call'[1].op = "add_dh_pubkey"
    /\ call'[1].again
    /\ clock' # clock

\* C11: a call of add_dh_pubkey that repeats the call before it (same persona,
\* same public PEM) returns what the first call returned; when that is a
\* KeyBox the second call changes neither the disk nor the maps, the key has
\* its one directory under the persona directory, and in every case no
\* staging directory is left.
C11_ImportIdempotent ==
    [][ImportRepeated =>
            /\ call'[1].ret = call[1].ret
            /\ Staging(fsys', call'[1].id) = {}
            /\ call[1].ret # Empty =>
                    /\ fsys' = fsys
                    /\ personas' = personas
                    /\ SubExists(fsys', call'[1].id, call'[1].ret)
                    /\ call'[1].ret \in DOMAIN personas'[1][call'[1].id].keys
                    /\ personas'[1][call'[1].id].keys[call'[1].ret].hex = call'[1].ret
       ]_vars

\* C11 witness: the second of two equal imports has returned the KeyBox of
\* the key, whose directory holds the public key
C11_Witness ==
    /\ Returned("add_dh_pubkey")
    /\ call[1].again
    /\ call[1].ret = EcKexId
    /\ SubFileExists(fsys, call[1].id, EcKexId, "dh.pub.pem")

\* del_dh_priv has returned success for a hex that is no reserved id
ShredReturned ==
    /\ Returned("del_dh_priv")
    /\ call[1].rc = 0
    /\ call[1].hex \notin {rsa_kex_id, ec_kex_id}

\* C12: when del_dh_priv(hex) has returned success for a hex that is no
\* reserved id, dh.priv.pem, used and peer do not exist in <base>/<id>/<hex>/
\* and the box of hex in the key map, if there is one, has no private half.
C12_PrivateShredded ==
    ShredReturned =>
        LET id == call[1].id
            hex == call[1].hex
        IN  /\ ~SubFileExists(fsys, id, hex, "dh.priv.pem")
            /\ ~SubFileExists(fsys, id, hex, "used")
            /\ ~SubFileExists(fsys, id, hex, "peer")
            /\ hex \in DOMAIN personas[1][id].keys =>
                    personas[1][id].keys[hex].priv_pem = Empty

\* C12 witness: del_dh_priv has shredded the private half of a generated key
\* that had a designated peer; the box is still in the map with its public half
C12_Witness ==
    /\ ShredReturned
    /\ call[1].st_size > 0
    /\ call[1].hex \in DOMAIN personas[1][call[1].id].keys
    /\ personas[1][call[1].id].keys[call[1].hex].pub_pem # Empty
    /\ personas[1][call[1].id].keys[call[1].hex].peer_id # Empty

\* every byte of the content is the zero byte
AllZero(content) == \A k \in 1..Len(content) : content[k] = Nul

\* this step removes the file dh.priv.pem of the key hex of persona id
PrivUnlinked(id, hex) ==
    /\ SubFileExists(fsys, id, hex, "dh.priv.pem")
    /\ ~SubFileExists(fsys', id, hex, "dh.priv.pem")

\* C13: a step that unlinks a dh.priv.pem is a step of del_dh_priv, taken
\* when the loop has passed the end of the file, and the file then holds
\* zero bytes only, over at least the length it had when the call began.
C13_OverwriteBeforeUnlink ==
    [][\A id \in {RsaId, EcId}, hex \in {DhKexId, EcKexId} :
            PrivUnlinked(id, hex) =>
                /\ call[1].op = "del_dh_priv"
                /\ call[1].id = id /\ call[1].hex = hex
                /\ call[1].i >= call[1].st_size
                /\ AllZero(SubFile(fsys, id, hex, "dh.priv.pem"))
                /\ Len(SubFile(fsys, id, hex, "dh.priv.pem")) >= call[1].st_size
       ]_vars

\* C13 witness: del_dh_priv has just unlinked a private key file of three
\* bytes, after two writes of one block each
C13_Witness ==
    /\ call[1].op = "del_dh_priv"
    /\ call[1].pc = "unlink_used"
    /\ call[1].st_size = BlockSize + 1
    /\ call[1].i = 2 * BlockSize
    /\ ~SubFileExists(fsys, call[1].id, call[1].hex, "dh.priv.pem")


\* C14: in every state, find_dh_key(ec_kex_id) on a persona of type EC
\* returns the long-term box of the persona, which holds its public key,
\* and on a persona of type RSA it fails with NotFound.
C14_EcFallback ==
    \A id \in DOMAIN personas[1] :
        LET p == personas[1][id]
            r == find_dh_key(p, ec_kex_id)
        IN  /\ p.ptype = ec => r.ret = <<"pkey">> /\ r.err = "none" /\ p.pub_pem # Empty
            /\ p.ptype = rsa => r.ret = Empty /\ r.err = "NotFound"

\* C14 witness: find_dh_key(ec_kex_id) has returned the long-term box of the
\* EC persona, which has an ephemeral key in its map
C14_Witness ==
    /\ Returned("find_dh_key")
    /\ call[1].arg = ec_kex_id
    /\ call[1].id = EcId
    /\ call[1].ret = <<"pkey">>
    /\ DOMAIN personas[1][EcId].keys # {}

\* the call c has a reserved id as its kex id
SentinelCall(c) ==
    \/ c.op \in {"del_dh_id", "del_dh_pub"} /\ c.arg \in {rsa_kex_id, ec_kex_id}
    \/ c.op = "used_key" /\ c.arg[1] \in {rsa_kex_id, ec_kex_id}
    \/ c.op = "del_dh_priv" /\ c.hex \in {rsa_kex_id, ec_kex_id}

\* C15: every step of del_dh_id, del_dh_priv, del_dh_pub and used_key called
\* with rsa_kex_id or ec_kex_id leaves the disk and the maps unchanged, and
\* the call returns success.
C15_SentinelInert ==
    [][(SentinelCall(call'[1]) /\ (clock' # clock \/ call'[1] # call[1])) =>
            /\ fsys' = fsys
            /\ personas' = personas
            /\ call'[1].pc = "done" => call'[1].rc = 0 /\ call'[1].err = "none"
       ]_vars

\* C15 witness: del_dh_id(rsa_kex_id) has returned success on a persona that
\* has an ephemeral key on disk and in its map
C15_Witness ==
    /\ Returned("del_dh_id")
    /\ call[1].arg = rsa_kex_id
    /\ call[1].rc = 0
    /\ \E hex \in DOMAIN personas[1][call[1].id].keys :
            SubFileExists(fsys, call[1].id, hex, "dh.pub.pem")

\* C16: keystore::load(hex) fails with InvalidId when hex is no hex hash and
\* returns failure whenever persona::load fails for that hex.
C16_LoadPropagates ==
    Returned("load_hex") =>
        /\ ~is_hex_hash(call[1].arg) => call[1].rc < 0 /\ call[1].err = "InvalidId"
        /\ call[1].loaded < 0 => call[1].rc < 0

\* the kex ids persona id has in memory or on disk
KexOf(id) ==
    DOMAIN personas[1][id].keys
        \cup (IF DirExists(fsys, id)
              THEN {d \in DOMAIN fsys[id].subs : d[1] # "tmp"} ELSE {})

\* the box of hex has a public half / a private half / a peer id
HasPub(id, hex) ==
    hex \in DOMAIN personas[1][id].keys /\ personas[1][id].keys[hex].pub_pem # Empty

HasPriv(id, hex) ==
    hex \in DOMAIN personas[1][id].keys /\ personas[1][id].keys[hex].priv_pem # Empty

HasPeer(id, hex) ==
    hex \in DOMAIN personas[1][id].keys /\ personas[1][id].keys[hex].peer_id # Empty

\* C17: between calls, for every persona in the map and every kex hex, there
\* is a box with a public half iff dh.pub.pem exists, a box with a private
\* half iff dh.priv.pem exists, and a recorded peer id iff the file peer
\* exists and holds that id.
C17_MemoryMirrorsDisk ==
    call[1].pc = "done" =>
        \A id \in DOMAIN personas[1] : \A hex \in KexOf(id) :
            /\ HasPub(id, hex) <=> SubFileExists(fsys, id, hex, "dh.pub.pem")
            /\ HasPriv(id, hex) <=> SubFileExists(fsys, id, hex, "dh.priv.pem")
            /\ HasPeer(id, hex) <=> SubFileExists(fsys, id, hex, "peer")
            /\ HasPeer(id, hex) =>
                    FirstLine(SubFile(fsys, id, hex, "peer"))
                        = personas[1][id].keys[hex].peer_id

\* C19: in every state, a persona that has DH parameters in memory or the
\* file dhparams.pem on disk is of type RSA.
C19_DhParamsOnlyRsa ==
    \A id \in DOMAIN personas[1] :
        (personas[1][id].dh_params # Empty \/ FileExists(fsys, id, "dhparams.pem"))
            => personas[1][id].ptype = rsa

\* the kex id of a public key: the digest of the public integer of a DH key,
\* the digest of the normalized PEM of any other key
KexIdOf(pub_pem) ==
    IF PEM_read_bio_PUBKEY(pub_pem) = "dh" THEN bn2hexhash(DhPubKey(pub_pem))
    ELSE HexHash(Frame(pub_pem))

\* the last call was gen_kex_key or add_dh_pubkey and returned a box
KexBoxReturned ==
    /\ Returned("gen_kex_key") \/ Returned("add_dh_pubkey")
    /\ call[1].ret # Empty

\* C20: a box returned by gen_kex_key or add_dh_pubkey is in the key map and
\* on disk under the kex id of its public key and carries that id; and two
\* boxes, of any two personas, that hold the same public key are stored
\* under the same hex.
C20_KexIdAgreement ==
    /\ KexBoxReturned =>
            LET id == call[1].id
                hex == call[1].ret
            IN  /\ hex \in DOMAIN personas[1][id].keys
                /\ personas[1][id].keys[hex].hex = hex
                /\ HasPub(id, hex) => KexIdOf(personas[1][id].keys[hex].pub_pem) = hex
                /\ SubExists(fsys, id, hex)
    /\ \A a \in DOMAIN personas[1], b \in DOMAIN personas[1] :
        \A ha \in DOMAIN personas[1][a].keys, hb \in DOMAIN personas[1][b].keys :
            (/\ HasPub(a, ha) /\ HasPub(b, hb)
             /\ Frame(personas[1][a].keys[ha].pub_pem)
                    = Frame(personas[1][b].keys[hb].pub_pem)) => ha = hb

\* C20 witness: the EC persona has imported, from a blob with garbage before
\* it, the DH key that gen_kex_key generated on the RSA persona
C20_Witness ==
    /\ Returned("add_dh_pubkey")
    /\ call[1].id = EcId
    /\ call[1].arg = <<"x", "n">> \o Pem("d")
    /\ call[1].ret = DhKexId
    /\ HasPriv(RsaId, DhKexId)
    /\ HasPub(EcId, DhKexId)

----------------------------------------------------------------------------
(* Loading from a base directory with any content: the directories of the  *)
(* two persona ids hold nothing, a key, another key, a key with text       *)
(* around it, or no key at all; one process then calls load(), load(hex)   *)
(* and add_persona.                                                        *)

MaxDiskCalls == 2

\* a persona directory with one file, or none, and no kex directories
DiskDir(files) == [files |-> files, subs |-> EmptyFn]

OneFile(name, content) == [x \in {name} |-> content]

\* the directory of RSA key r with one kex directory holding files
StaleKexDir(files) ==
    [files |-> OneFile("rsa.pub.pem", Pem("r")), subs |-> OneFile(DhKexId, files)]

DiskDirs ==
    {DiskDir(EmptyFn),
     DiskDir(OneFile("rsa.pub.pem", Pem("r"))),
     DiskDir(OneFile("rsa.pub.pem", Pem("s"))),
     DiskDir(OneFile("rsa.pub.pem", <<"x", "n">> \o Pem("r") \o <<"x">>)),
     DiskDir(OneFile("rsa.pub.pem", <<"x">>)),
     DiskDir(OneFile("ec.pub.pem", Pem("e"))),
     StaleKexDir(OneFile("dh.priv.pem", <<"x">>)),
     StaleKexDir(EmptyFn)}

\* the base directories a run starts from
Disks == UNION {[D -> DiskDirs] : D \in SUBSET {RsaId, EcId}}

InitDisk ==
    /\ fsys \in Disks
    /\ personas = [p \in Procs |-> EmptyFn]
    /\ call = [p \in Procs |-> Idle]
    /\ seen = Empty
    /\ clock = 0
    /\ added = {}
    /\ norm = NormIdle

DiskReady == call[1].pc = "done" /\ clock < MaxDiskCalls

DiskLoad ==
    /\ DiskReady
    /\ personas' = [personas EXCEPT ![1] = keystore_load(fsys, personas[1])]
    /\ call' = [call EXCEPT ![1] =
            [op |-> "load", pc |-> "done", id |-> Empty, arg |-> Empty,
             ret |-> Empty, rc |-> 0, err |-> "none"]]
    /\ clock' = clock + 1
    /\ UNCHANGED <<fsys, seen, added, norm>>

DiskLoadHex ==
    \E hex \in LoadInputs :
        /\ DiskReady
        /\ LET r == keystore_load_hex(fsys, personas[1], hex)
           IN  /\ personas' = [personas EXCEPT ![1] = r.m]
               /\ call' = [call EXCEPT ![1] =
                        [op |-> "load_hex", pc |-> "done", id |-> hex, arg |-> hex,
                         ret |-> Empty, rc |-> r.rc, err |-> r.err,
                         loaded |-> persona_load(fsys, BlankPersona(hex), Empty).rc]]
        /\ clock' = clock + 1
        /\ UNCHANGED <<fsys, seen, added, norm>>

DiskAddPersona ==
    \E pub \in {Pem("r"), Pem("e"), <<"x", "n">> \o Pem("r") \o <<"x">>} :
        /\ DiskReady
        /\ LET st == add_persona(1, clock + 1,
                        [f |-> fsys, m |-> personas[1],
                         c |-> NewAddPersona(<<"a", "l">>, pub, Empty, Empty, "none")])
           IN  /\ fsys' = st.f
               /\ personas' = [personas EXCEPT ![1] = st.m]
               /\ call' = [call EXCEPT ![1] = st.c]
               /\ added' = IF st.c.ret # Empty THEN added \cup {st.c.ret} ELSE added
        /\ clock' = clock + 1
        /\ UNCHANGED <<seen, norm>>

NextDisk == DiskLoad \/ DiskLoadHex \/ DiskAddPersona

SpecDisk == InitDisk /\ [][NextDisk]_vars

----------------------------------------------------------------------------
(* Claims about loading, under SpecDisk *)

\* the id of persona p is the digest of the normalized form of its public PEM
IdIsDigest(p) ==
    LET r == normalize_and_hexhash(p.pub_pem)
    IN  r.rc = 0 /\ r.result = p.id

\* C18: in every state, whatever the base directory holds, every persona in
\* the map, inserted by add_persona, load() or load(hex), has an id equal to
\* the digest of the normalized form of its long-term public PEM.
C18_IdentityInvariant ==
    \A id \in DOMAIN personas[1] :
        personas[1][id].id = id /\ IdIsDigest(personas[1][id])


\* the persona directories whose long-term keys load: persona::load with a
\* reserved kex id reads the long-term keys and no kex directory
Loadable(f) ==
    {id \in DOMAIN f :
        is_hex_hash(id) /\ persona_load(f, BlankPersona(id), rsa_kex_id).rc = 0}

\* the kex directories of persona directory id for which load_dh fails
FailingKex(f, id) ==
    {hex \in DOMAIN f[id].subs :
        is_hex_hash(hex) /\ load_dh(f, BlankPersona(id), hex).rc < 0}

\* C21: keystore::load() returns success whatever the persona directories
\* hold; it inserts exactly the personas whose load succeeded, each with the
\* public key of its directory, and none of those that failed; and
\* persona::load without a kex id succeeds for every directory whose
\* long-term keys load, even when load_dh fails for a kex directory in it.
C21_BulkLoadTolerant ==
    [][(call'[1].op = "load" /\ clock' # clock) =>
            /\ call'[1].rc = 0
            /\ DOMAIN personas'[1] = DOMAIN personas[1] \cup Loadable(fsys)
            /\ \A id \in Loadable(fsys) :
                    /\ personas'[1][id].pub_pem = fsys[id].files[PubFile(check_type(fsys, id))]
                    /\ persona_load(fsys, BlankPersona(id), Empty).rc = 0
            /\ \A id \in DOMAIN personas[1] \ Loadable(fsys) :
                    personas'[1][id] = personas[1][id]
       ]_vars

\* C21 witness: load() has returned on a base directory with one directory
\* that fails to load and is not in the map, and one that is in the map
\* though load_dh fails for a kex directory in it
C21_Witness ==
    /\ Returned("load")
    /\ call[1].rc = 0
    /\ \E id \in DOMAIN fsys : id \notin DOMAIN personas[1]
    /\ \E id \in DOMAIN fsys \cap DOMAIN personas[1] : FailingKex(fsys, id) # {}

----------------------------------------------------------------------------
(* Deleting ephemeral keys: an RSA persona with DH parameters and a         *)
(* generated DH key, an EC persona that imported that key, and an RSA      *)
(* persona without DH parameters; one process deletes, marks, reloads,     *)
(* imports and generates.                                                  *)

MaxDelCalls == 4

SId == HexHash(Pem("s"))

RECURSIVE RunDelDhPriv(_)
\* persona::del_dh_priv (lines 1133-1173) run to its return
RunDelDhPriv(st) == IF st.c.pc = "done" THEN st ELSE RunDelDhPriv(DelDhPrivStep(st))

\* the deletion of a key by its owner: del_dh_priv when the box has a
\* private half, then del_dh_pub, then del_dh_id, whose result is returned
delete_key(f, p, hex) ==
    LET shred == hex \in DOMAIN p.keys /\ p.keys[hex].priv_pem # Empty
        s1 == IF shred
              THEN RunDelDhPriv([f |-> f, p |-> p, c |-> NewDelDhPriv(p.id, hex)])
              ELSE [f |-> f, p |-> p]
        r2 == del_dh_pub(s1.f, s1.p, hex)
    IN  del_dh_id(r2.f, r2.p, hex)

\* add_persona("al", s, PRIV_s, "") after TwoPersonas
ThreePersonas(two) ==
    add_persona(1, 3, [f |-> two.f, m |-> two.m,
        c |-> NewAddPersona(<<"a", "l">>, Pem("s"), <<"PRIV_s">>, Empty, "none")])

\* the state after ThreePersonas, gen_kex_key(peer) on the first persona and
\* add_dh_pubkey(d) on the second
InitDel ==
    \E peer \in PeerInputs : \E two \in {TwoPersonas} : \E s3 \in {ThreePersonas(two)} :
        \E g \in {gen_kex_key(1, 4, s3.f, s3.m[RsaId], peer, "d")} :
            \E a \in {add_dh_pubkey(1, 5, g.f, s3.m[EcId], Pem("d"))} :
                /\ fsys = a.f
                /\ personas = [p \in Procs |->
                        IF p = 1 THEN MapPut(MapPut(s3.m, RsaId, g.p), EcId, a.p)
                        ELSE EmptyFn]
                /\ call = [p \in Procs |-> Idle]
                /\ seen = Empty
                /\ clock = 5
                /\ added = {RsaId, EcId, SId}
                /\ norm = NormIdle

DelReady == call[1].pc = "done" /\ clock < 5 + MaxDelCalls

\* the personas that hold the key d
Holders == {RsaId, EcId}

DelGenKexKey ==
    \E id \in {RsaId, SId} :
        /\ DelReady
        /\ Finish("gen_kex_key", id, Empty,
                  gen_kex_key(1, clock + 1, fsys, personas[1][id], Empty, "d"))

DelAddDhPubkey ==
    \E id \in Holders :
        /\ DelReady
        /\ Finish("add_dh_pubkey", id, Pem("d"),
                  add_dh_pubkey(1, clock + 1, fsys, personas[1][id], Pem("d")))

DelUsedKey ==
    \E id \in Holders, u \in BOOLEAN :
        /\ DelReady
        /\ Finish("used_key", id, <<DhKexId, u>>,
                  Result(used_key(fsys, personas[1][id], DhKexId, u), personas[1][id],
                         Empty, 0, "none"))

DelId ==
    \E id \in Holders :
        /\ DelReady
        /\ Finish("del_dh_id", id, DhKexId, del_dh_id(fsys, personas[1][id], DhKexId))

DelPub ==
    \E id \in Holders :
        /\ DelReady
        /\ Finish("del_dh_pub", id, DhKexId, del_dh_pub(fsys, personas[1][id], DhKexId))

DelPriv ==
    \E id \in Holders :
        /\ DelReady
        /\ call' = [call EXCEPT ![1] = NewDelDhPriv(id, DhKexId)]
        /\ clock' = clock + 1
        /\ UNCHANGED <<fsys, personas, seen, added, norm>>

DeleteKey ==
    \E id \in Holders :
        \E hex \in DOMAIN personas[1][id].keys :
            /\ DelReady
            /\ Finish("delete_key", id, hex, delete_key(fsys, personas[1][id], hex))

DelLoadHex ==
    \E hex \in Holders :
        /\ DelReady
        /\ LET r == keystore_load_hex(fsys, personas[1], hex)
           IN  /\ personas' = [personas EXCEPT ![1] = r.m]
               /\ call' = [call EXCEPT ![1] =
                        [op |-> "load_hex", pc |-> "done", id |-> hex, arg |-> hex,
                         ret |-> Empty, rc |-> r.rc, err |-> r.err,
                         loaded |-> persona_load(fsys, BlankPersona(hex), Empty).rc]]
        /\ clock' = clock + 1
        /\ UNCHANGED <<fsys, seen, added, norm>>

NextDel ==
    \/ DelGenKexKey \/ DelAddDhPubkey \/ DelUsedKey
    \/ DelId \/ DelPub \/ DelPriv \/ DelDhPrivNext \/ DeleteKey \/ DelLoadHex

SpecDel == InitDel /\ [][NextDel]_vars


----------------------------------------------------------------------------
(* Claims about deletion, under SpecDel *)

\* the kex directory hex of persona id exists and holds no file
Tombstone(f, id, hex) == SubExists(f, id, hex) /\ DOMAIN f[id].subs[hex] = {}

\* this step is a call of op by the process
Calls(op) == call'[1].op = op /\ clock' # clock

\* C22: when the directory of a deleted key is left in place without files,
\* a reload of the persona succeeds and inserts no box for that hex; and
\* add_dh_pubkey of the same key, on a persona without a box for it, fails
\* with Conflict, leaves the directory empty, leaves no staging directory
\* and leaves the map as it was.
C22_Tombstone ==
    [][/\ (Calls("load_hex") /\ Tombstone(fsys, call'[1].id, DhKexId)) =>
            /\ call'[1].rc = 0 /\ call'[1].loaded = 0
            /\ DhKexId \notin DOMAIN personas'[1][call'[1].id].keys
       /\ (/\ Calls("add_dh_pubkey")
           /\ Tombstone(fsys, call'[1].id, DhKexId)
           /\ DhKexId \notin DOMAIN personas[1][call'[1].id].keys) =>
            /\ call'[1].ret = Empty /\ call'[1].err = "Conflict"
            /\ Tombstone(fsys', call'[1].id, DhKexId)
            /\ Staging(fsys', call'[1].id) = {}
            /\ personas' = personas
      ]_vars

\* C22 witness: the generated key of the RSA persona is a tombstone, the
\* persona has no box for it and add_dh_pubkey of that key has failed with
\* Conflict
C22_Witness ==
    /\ Returned("add_dh_pubkey")
    /\ call[1].id = RsaId
    /\ call[1].err = "Conflict"
    /\ Tombstone(fsys, RsaId, DhKexId)
    /\ DhKexId \notin DOMAIN personas[1][RsaId].keys

\* C23: gen_kex_key on a persona of type RSA without DH parameters fails
\* with PreconditionFailed and changes neither the disk nor the maps.
C23_NoParamsNoKey ==
    [][(/\ Calls("gen_kex_key")
        /\ personas[1][call'[1].id].ptype = rsa
        /\ personas[1][call'[1].id].dh_params = Empty) =>
            /\ call'[1].ret = Empty /\ call'[1].err = "PreconditionFailed"
            /\ fsys' = fsys
            /\ personas' = personas
      ]_vars

\* C23 witness: gen_kex_key has failed on the RSA persona created without
\* DH parameters
C23_Witness ==
    /\ Returned("gen_kex_key")
    /\ call[1].id = SId
    /\ personas[1][SId].ptype = rsa
    /\ personas[1][SId].dh_params = Empty
    /\ call[1].err = "PreconditionFailed"

\* C24: for every key in the map of a persona, the sequence del_dh_priv
\* (when the box has a private half), del_dh_pub, del_dh_id ends with
\* del_dh_id returning success, the key absent from the map and its
\* directory removed.
C24_CompleteDeletion ==
    [][Calls("delete_key") =>
            /\ call'[1].rc = 0
            /\ call'[1].arg \notin DOMAIN personas'[1][call'[1].id].keys
            /\ ~SubExists(fsys', call'[1].id, call'[1].arg)
      ]_vars


----------------------------------------------------------------------------
(* Claims about reloading, under Spec *)

\* the map of a fresh keystore on the same base directory after load()
FreshLoad == keystore_load(fsys, EmptyFn)

\* C26: for every persona created by a successful add_persona, a fresh
\* keystore on the same base directory that calls load() contains a persona
\* with the same id, type, name and public PEM, and with a private key
\* exactly when the created persona has one.
C26_RoundTrip ==
    \A id \in added :
        /\ id \in DOMAIN FreshLoad
        /\ FreshLoad[id].id = personas[1][id].id
        /\ FreshLoad[id].ptype = personas[1][id].ptype
        /\ FreshLoad[id].name = personas[1][id].name
        /\ FreshLoad[id].pub_pem = personas[1][id].pub_pem
        /\ FreshLoad[id].priv_pem # Empty <=> personas[1][id].priv_pem # Empty

----------------------------------------------------------------------------
(* Further claims about ephemeral keys and DH parameters, under SpecKex *)

\* C27: in every state every box in the key map of a persona holds a public
\* or a private half.
C27_NoEmptyBox ==
    \A id \in DOMAIN personas[1] : \A hex \in DOMAIN personas[1][id].keys :
        \/ personas[1][id].keys[hex].pub_pem # Empty
        \/ personas[1][id].keys[hex].priv_pem # Empty

\* C28: when new_dh_params(pem) fails on a persona of type RSA because pem
\* is no DH parameter block, the DH parameters of the persona are unchanged in memory and in
\* dhparams.pem, and a load of the persona still succeeds.
C28_FailedImportHarmless ==
    [][(/\ call'[1].op = "new_dh_params_pem" /\ clock' # clock
        /\ call'[1].err = "Malformed"
        /\ personas[1][call'[1].id].ptype = rsa) =>
            /\ personas' = personas
            /\ fsys'[call'[1].id].files = fsys[call'[1].id].files
            /\ persona_load(fsys', BlankPersona(call'[1].id), Empty).rc = 0
      ]_vars

----------------------------------------------------------------------------
(* Two processes on one persona directory: each has loaded the persona;    *)
(* gen_kex_key and add_dh_pubkey run system call by system call, so that   *)
(* the calls of the other process fall between their stat and rename.      *)

MaxRaceCalls == 3

\* the persona both processes work on, and the hex of the key they publish
RaceId == EcId

\* rename(<base>/<id>/<from>, <base>/<id>/<to>) returns 0: `to' is absent
\* or an empty directory
SubRenameOk(f, id, from, to) ==
    /\ SubExists(f, id, from)
    /\ SubExists(f, id, to) => DOMAIN f[id].subs[to] = {}

\* a call of gen_kex_key or add_dh_pubkey that has its key and found no box
\* for it in keys; over: the rename replaced an existing directory
NewKexCall(op, id, hex, pub_pem, priv_pem, peer, tmp) ==
    [op |-> op, pc |-> "stage", id |-> id, hex |-> hex, pub_pem |-> pub_pem,
     priv_pem |-> priv_pem, peer |-> peer, tmpdir |-> tmp,
     ret |-> Empty, err |-> "none", over |-> FALSE]

\* a call that has returned
KexCallDone(op, id, hex, ret, err) ==
    [op |-> op, pc |-> "done", id |-> id, hex |-> hex, pub_pem |-> Empty,
     priv_pem |-> Empty, peer |-> Empty, tmpdir |-> Empty,
     ret |-> ret, err |-> err, over |-> FALSE]

\* the unlinks and the rmdir of the staging directory after a conflict
KexCleanup(f, id, tmp) ==
    SubRmdir(SubUnlink(SubUnlink(SubUnlink(f, id, tmp, "dh.pub.pem"),
                                 id, tmp, "dh.priv.pem"), id, tmp, "peer"), id, tmp)

\* the next system call of gen_kex_key (lines 901-977) or add_dh_pubkey
\* (lines 1083-1113) of a process with base directory st.f and persona st.p
KexStep(st) ==
    LET c == st.c
        id == c.id
        staged == SubPut(SubMkdir(st.f, id, c.tmpdir), id, c.tmpdir, "dh.pub.pem", c.pub_pem)
        keyed == IF c.op = "gen_kex_key"
                 THEN SubPut(staged, id, c.tmpdir, "dh.priv.pem", c.priv_pem)
                 ELSE staged
        peered == IF c.op = "gen_kex_key" /\ c.peer # Empty /\ is_hex_hash(c.peer)
                  THEN SubPut(keyed, id, c.tmpdir, "peer", c.peer \o <<"n">>)
                  ELSE keyed
        conflict == [st EXCEPT !.f = KexCleanup(st.f, id, c.tmpdir),
                               !.c.pc = "done", !.c.err = "Conflict"]
    IN  CASE c.pc = "stage" ->
                IF ~SubMkdirOk(st.f, id, c.tmpdir)
                THEN [st EXCEPT !.c.pc = "done", !.c.err = "IoError"]
                ELSE [st EXCEPT !.f = peered, !.c.pc = "stat"]
          [] c.pc = "stat" ->
                IF SubExists(st.f, id, c.hex) THEN conflict
                ELSE [st EXCEPT !.c.pc = "rename"]
          [] c.pc = "rename" ->
                IF ~SubRenameOk(st.f, id, c.tmpdir, c.hex) THEN conflict
                ELSE [st EXCEPT !.f = SubRename(st.f, id, c.tmpdir, c.hex),
                                !.p = KeysPut(st.p, c.hex,
                                        PKEYbox(c.hex, c.pub_pem, c.priv_pem, c.peer)),
                                !.c.pc = "done", !.c.ret = c.hex,
                                !.c.over = SubExists(st.f, id, c.hex)]

InitRace ==
    /\ fsys = TwoPersonas.f
    /\ personas = [p \in Procs |-> TwoPersonas.m]
    /\ call = [p \in Procs |-> Idle]
    /\ seen = Empty
    /\ clock = 2
    /\ added = {RsaId, EcId}
    /\ norm = NormIdle

RaceReady(p) == call[p].pc = "done" /\ clock < 2 + MaxRaceCalls

\* process 1, the owner, enters gen_kex_key
RaceGen(p) ==
    /\ p = 1
    /\ RaceReady(p)
    /\ LET key == NewKexKey(personas[p][RaceId], "k")
       IN  call' = [call EXCEPT ![p] =
                IF key.hex \in DOMAIN personas[p][RaceId].keys
                THEN KexCallDone("gen_kex_key", RaceId, key.hex, key.hex, "none")
                ELSE NewKexCall("gen_kex_key", RaceId, key.hex, key.pub_pem,
                                key.priv_pem, Empty, TmpName(clock + 1, p))]
    /\ clock' = clock + 1
    /\ UNCHANGED <<fsys, personas, seen, added, norm>>

\* a process enters add_dh_pubkey with the public key k
RaceAdd(p) ==
    /\ RaceReady(p)
    /\ LET k == KexId(Pem("k"))
       IN  call' = [call EXCEPT ![p] =
                IF k.hex \in DOMAIN personas[p][RaceId].keys
                THEN KexCallDone("add_dh_pubkey", RaceId, k.hex, k.hex, "none")
                ELSE NewKexCall("add_dh_pubkey", RaceId, k.hex, k.pub_pem,
                                Empty, Empty, TmpName(clock + 1, p))]
    /\ clock' = clock + 1
    /\ UNCHANGED <<fsys, personas, seen, added, norm>>

\* a process makes the next system call of its gen_kex_key or add_dh_pubkey
RaceStep(p) ==
    /\ call[p].op \in {"gen_kex_key", "add_dh_pubkey"}
    /\ call[p].pc # "done"
    /\ LET st == KexStep([f |-> fsys, p |-> personas[p][RaceId], c |-> call[p]])
       IN  /\ fsys' = st.f
           /\ personas' = [personas EXCEPT ![p][RaceId] = st.p]
           /\ call' = [call EXCEPT ![p] = st.c]
    /\ UNCHANGED <<seen, clock, added, norm>>

\* a process calls del_dh_pub on the key
RaceDelPub(p) ==
    /\ RaceReady(p)
    /\ LET r == del_dh_pub(fsys, personas[p][RaceId], EcKexId)
       IN  /\ fsys' = r.f
           /\ personas' = [personas EXCEPT ![p][RaceId] = r.p]
           /\ call' = [call EXCEPT ![p] =
                    KexCallDone("del_dh_pub", RaceId, EcKexId, Empty, r.err)]
    /\ clock' = clock + 1
    /\ UNCHANGED <<seen, added, norm>>

NextRace == \E p \in Procs : RaceGen(p) \/ RaceAdd(p) \/ RaceStep(p) \/ RaceDelPub(p)

SpecRace == InitRace /\ [][NextRace]_vars

----------------------------------------------------------------------------
(* Claims about concurrent publication, under SpecRace *)

\* process p makes the stat or the rename of its publication in this step
Publishes(p) ==
    /\ call[p].op \in {"gen_kex_key", "add_dh_pubkey"}
    /\ call[p].pc \in {"stat", "rename"}
    /\ call'[p].pc # call[p].pc

\* C25: under every interleaving of two processes, when the directory <hex>
\* exists, empty or not, at the stat or at the rename of gen_kex_key or
\* add_dh_pubkey, the call fails with Conflict and the directory is left as
\* it was: no staging directory is renamed onto an existing directory.
C25_NoPublishOverExisting ==
    [][\A p \in Procs :
        (Publishes(p) /\ SubExists(fsys, RaceId, call[p].hex)) =>
            /\ call'[p].pc = "done"
            /\ call'[p].err = "Conflict"
            /\ ~call'[p].over
            /\ fsys'[RaceId].subs[call[p].hex] = fsys[RaceId].subs[call[p].hex]
      ]_vars

====
